---- MODULE Spec2Model ----
(***************************************************************************)
(* A model of the ZocDoc appointment scraper                               *)
(* (ZocDoc/zocdoc_scraper_production.py) and of the HTTP trigger layer     *)
(* around it (ZocDoc/app.py).                                              *)
(*                                                                         *)
(* Spec     the orchestrator ZocDocScraper.run(): proxy failover, the      *)
(*          retry executor, page load, doctor selection, modal processing  *)
(*          and result assembly.  Every call of an external collaborator   *)
(*          (browser, page) is a nondeterministic choice of its outcome.   *)
(* AppSpec  the trigger layer: request handlers of trigger_scraper and the *)
(*          background threads of run_scraper_async, interleaved.          *)
(***************************************************************************)
EXTENDS Integers, Sequences, FiniteSets, TLC

(***************************************************************************)
(* Bounds of the model.                                                    *)
(***************************************************************************)
MaxBackups == 2

MaxRetries == 3

MaxButtons == 2

MaxAppointments == 2

\* the external collaborators fail at most MaxFaults times during one run
MaxFaults == 4

\* the requests to '/results' of one behaviour
MaxQueries == 1

MaxRequests == 2

(***************************************************************************)
(* Config: the values the class body fixes.                                *)
(***************************************************************************)
PROXY_SERVER == "http://68.225.23.120:13884"

PROXY_USERNAME == "rockin12345678"

PROXY_PASSWORD == "Varun123456789"

TARGET_DOCTORS == << "Dr. Michael Ayzin, DDS", "Dr. Ronald Ayzin, DDS" >>

RETRY_DELAY == 5

\* Python's None, for every optional value of the model.
None == [none |-> TRUE]

RECURSIVE Pow2(_)
Pow2(n) == IF n = 0 THEN 1 ELSE 2 * Pow2(n - 1)

RECURSIVE SplitFrom(_, _, _)
\* str.split(sep) on a text given as a sequence of tokens: cur is the field
\* read so far; every separator token closes a field, empty fields included.
SplitFrom(s, sep, cur) ==
    IF s = << >> THEN << cur >>
    ELSE IF Head(s) = sep THEN << cur >> \o SplitFrom(Tail(s), sep, "")
    ELSE SplitFrom(Tail(s), sep, cur \o Head(s))

Split(s, sep) == SplitFrom(s, sep, "")

(***************************************************************************)
(* Exceptions: the class name, str(e) and the names of the class and of    *)
(* its bases (mro), by which an except clause decides.                     *)
(***************************************************************************)
\* an exception of a class that derives from Exception
Exc(type, msg) ==
    [type |-> type, msg |-> msg, mro |-> { type, "Exception", "BaseException" }]

\* lines 151-178: an exception of a class that derives from ZocDocScraperError
ScraperExc(type, msg) ==
    [type |-> type, msg |-> msg,
     mro |-> { type, "ZocDocScraperError", "Exception", "BaseException" }]

\* An exception raised by the browser library (playwright/camoufox).
BrowserError(what) == Exc("Error", what)

PageLoadError_unwrapped(msg) == Exc("Error", msg)

PageLoadError(msg) == ScraperExc("PageLoadError", msg)

DoctorSelectionError_of_connection_kind(msg) == Exc("PageLoadError", msg)

DoctorSelectionError(msg) == ScraperExc("DoctorSelectionError", msg)

ModalNotFoundError(msg) == ScraperExc("ModalNotFoundError", msg)

DataExtractionError(msg) == ScraperExc("DataExtractionError", msg)

\* raise None (Python: "exceptions must derive from BaseException").
TypeError == Exc("TypeError", "exceptions must derive from BaseException")

(***************************************************************************)
(* State.                                                                  *)
(***************************************************************************)
VARIABLES
    \* Config, read from the environment when the class body runs
    PROXY_ENABLED, PROXY_BACKUP_LIST, MAX_RETRIES,
    \* ZocDocScraper fields
    start_time, appointments, current_doctor, metrics,
    \* run(): position and locals
    pc, max_proxy_attempts, proxy_attempt, use_backup,
    backup_index, proxy, doctor_index, button_count, idx, result, escaped,
    \* the sessions (Camoufox context managers) open now, and every launch
    open_sessions, launch_log,
    \* _retry_with_backoff(): the wrapped function, the loop variable, the
    \* number of invocations and every time.sleep(delay) of this call
    r_func, r_attempt, last_exception, r_calls, r_sleeps,
    \* the outcome of the last invocation made by _retry_with_backoff, and
    \* the number of failures of the external collaborators so far
    last_call, faults,
    \* app.py: scraper_status, the request handlers of '/', the run threads
    \* and the request handlers of '/results'
    scraper_status, requests, threads, queries,
    \* the two files _save_results wrote, and, in the specifications of one
    \* function, what the page shows during the call
    exports, unit_input

configVars == << PROXY_ENABLED, PROXY_BACKUP_LIST, MAX_RETRIES >>

retryVars == << r_func, r_attempt, last_exception, r_calls, r_sleeps >>

callVars == << last_call, faults >>

runVars == << start_time, appointments, current_doctor, metrics, pc,
              max_proxy_attempts, proxy_attempt, use_backup,
              backup_index, proxy, doctor_index, button_count, idx, result,
              escaped, open_sessions, launch_log >>

appVars == << scraper_status, requests, threads, queries >>

unitVars == << exports, unit_input >>

vars == << configVars, runVars, retryVars, callVars, appVars, unitVars >>

(***************************************************************************)
(* Proxy failover controller.                                              *)
(***************************************************************************)
PrimaryProxy ==
    [server |-> PROXY_SERVER, username |-> PROXY_USERNAME,
     password |-> PROXY_PASSWORD]

\* A backup entry is text "ip:port:username:password", here a sequence of
\* tokens in which ":" is the separator character.
GoodBackup == << "10.0.0.1", ":", "8080", ":", "user1", ":", "pass1" >>

ShortBackup == << "10.0.0.2", ":", "8080", ":", "user2" >>

LongBackup == << "10.0.0.3", ":", "8080", ":", "user3", ":", "pa", ":", "ss" >>

BackupChoices == { GoodBackup, ShortBackup, LongBackup }

RECURSIVE Alternate(_, _, _)
\* the list a, b, a, b, ... of length n
Alternate(a, b, n) ==
    IF n = 0 THEN << >> ELSE << a >> \o Alternate(b, a, n - 1)

\* the backup lists of a run: well-formed and malformed entries in turn
RunBackupLists ==
    { Alternate(GoodBackup, ShortBackup, n) : n \in 0..MaxBackups }
        \cup { Alternate(ShortBackup, GoodBackup, n) : n \in 0..MaxBackups }

RECURSIVE SeqsUpTo(_, _)
SeqsUpTo(S, n) ==
    IF n = 0 THEN { << >> }
    ELSE LET shorter == SeqsUpTo(S, n - 1)
         IN shorter \cup { Append(q, x) : q \in shorter, x \in S }

get_proxy_config_primary_only(ub, bi) ==
    IF ~PROXY_ENABLED THEN None ELSE PrimaryProxy

get_proxy_config(ub, bi) ==
    IF ~PROXY_ENABLED THEN None
    ELSE IF ub /\ bi < Len(PROXY_BACKUP_LIST)
            /\ Len(Split(PROXY_BACKUP_LIST[bi + 1], ":")) = 4
         THEN LET parts == Split(PROXY_BACKUP_LIST[bi + 1], ":")
              IN [server |-> "http://" \o parts[1] \o ":" \o parts[2],
                  username |-> parts[3], password |-> parts[4]]
         ELSE PrimaryProxy

max_proxy_attempts_ignoring_flag == 1 + Len(PROXY_BACKUP_LIST)

\* run(), line 731
compute_max_proxy_attempts ==
    IF PROXY_ENABLED THEN 1 + Len(PROXY_BACKUP_LIST) ELSE 1

(***************************************************************************)
(* Outcomes of calls to the external collaborators, and texts.             *)
(***************************************************************************)
Returns(v) == [raises |-> FALSE, value |-> v]

Raises(what) == [raises |-> TRUE, value |-> what]

RECURSIVE Join(_)
\* "".join(tokens)
Join(s) == IF s = << >> THEN "" ELSE Head(s) \o Join(Tail(s))

Contains_whole_text(text, needle) == text = << needle >>

\* needle in text, for a text given as a sequence of tokens
Contains(text, needle) == \E i \in 1..Len(text) : text[i] = needle

\* str.lower() of one character: the cased characters of the texts of the
\* model are the ASCII letters
LowerChar(c) ==
    CASE c = "A" -> "a" [] c = "B" -> "b" [] c = "C" -> "c" [] c = "D" -> "d"
      [] c = "E" -> "e" [] c = "F" -> "f" [] c = "G" -> "g" [] c = "H" -> "h"
      [] c = "I" -> "i" [] c = "J" -> "j" [] c = "K" -> "k" [] c = "L" -> "l"
      [] c = "M" -> "m" [] c = "N" -> "n" [] c = "O" -> "o" [] c = "P" -> "p"
      [] c = "Q" -> "q" [] c = "R" -> "r" [] c = "S" -> "s" [] c = "T" -> "t"
      [] c = "U" -> "u" [] c = "V" -> "v" [] c = "W" -> "w" [] c = "X" -> "x"
      [] c = "Y" -> "y" [] c = "Z" -> "z"
      [] OTHER -> c

RECURSIVE LowerToken(_)
\* str.lower() of one token, character by character
LowerToken(t) ==
    IF Len(t) = 0 THEN "" ELSE LowerChar(Head(t)) \o LowerToken(Tail(t))

Lower(text) == [i \in 1..Len(text) |-> LowerToken(text[i])]

(***************************************************************************)
(* Session navigation validator: _load_page.                               *)
(***************************************************************************)
SiteTitle == << "Dentistry At Its Finest", " - Zocdoc" >>

BlockTitle == << "Access Denied" >>

CleanHtml == << "<html>", "Book online" >>

BlockedHtml == << "<html>", "403", "Restricted" >>

\* the block page with another capitalisation
BlockedHtmlMixed == << "<html>", "403", "rEsTrIcTeD" >>

Html403Only == << "<html>", "403" >>

is_restricted_403_only(html) == Contains(html, "403")

\* the check of lines 320 and 325
is_restricted(html) == Contains(html, "403") /\ Contains(Lower(html), "restricted")

\* What the page does during one _load_page call: goto, title(), content(),
\* reload() and the two content() calls of line 325.
LoadInput(g, t, h, r, h2, h3) ==
    [goto |-> g, title |-> t, html |-> h, reload |-> r, html2 |-> h2,
     html3 |-> h3]

AllLoadInputs ==
    { LoadInput(g, t, h, r, h2, h3) :
        g \in { Returns(TRUE), Raises("goto: timeout") },
        t \in { Returns(SiteTitle), Returns(BlockTitle), Raises("title: page closed") },
        h \in { Returns(CleanHtml), Returns(BlockedHtml), Returns(BlockedHtmlMixed),
                Returns(Html403Only), Raises("content: page closed") },
        r \in { Returns(TRUE), Raises("reload: timeout") },
        h2 \in { Returns(CleanHtml), Returns(BlockedHtml), Returns(Html403Only),
                 Raises("content: page closed") },
        h3 \in { Returns(CleanHtml), Returns(BlockedHtml), Returns(BlockedHtmlMixed),
                 Raises("content: page closed") } }

\* The page behaviours of a run: one for each way through _load_page.
LoadInputs ==
    LET ok == Returns(TRUE)
        site == Returns(SiteTitle)
        clean == Returns(CleanHtml)
        blocked == Returns(BlockedHtml)
    IN  { LoadInput(ok, site, clean, ok, clean, clean),
          LoadInput(ok, site, blocked, ok, clean, clean),
          LoadInput(ok, Returns(BlockTitle), clean, ok, clean, clean),
          LoadInput(Raises("goto: timeout"), site, clean, ok, clean, clean) }

\* One call of _load_page: whether it returned, the exception it raised, the
\* increment of metrics['page_loads'], the number of reload() calls and the
\* number of rechecks (line 325) begun.
load_page(inp) ==
    LET failed(msg, loads, reloads, rechecks) ==
            [ok |-> FALSE, exc |-> PageLoadError("Failed to load page: " \o msg),
             page_loads |-> loads, reloads |-> reloads, rechecks |-> rechecks]
        loaded(reloads) ==
            [ok |-> TRUE, exc |-> None, page_loads |-> 1, reloads |-> reloads,
             rechecks |-> reloads]
    IN  IF inp.goto.raises THEN failed(inp.goto.value, 0, 0, 0)
        ELSE IF inp.title.raises THEN failed(inp.title.value, 1, 0, 0)
        ELSE IF ~Contains(inp.title.value, "Dentistry At Its Finest")
             THEN failed("Unexpected page title: " \o Join(inp.title.value), 1, 0, 0)
        ELSE IF inp.html.raises THEN failed(inp.html.value, 1, 0, 0)
        ELSE IF ~is_restricted(inp.html.value) THEN loaded(0)
        ELSE IF inp.reload.raises THEN failed(inp.reload.value, 1, 1, 0)
        ELSE IF inp.html2.raises THEN failed(inp.html2.value, 1, 1, 1)
        ELSE IF ~Contains(inp.html2.value, "403") THEN loaded(1)
        ELSE IF inp.html3.raises THEN failed(inp.html3.value, 1, 1, 1)
        ELSE IF Contains(Lower(inp.html3.value), "restricted")
             THEN failed("Page still restricted after reload", 1, 1, 1)
        ELSE loaded(1)

(***************************************************************************)
(* Target selection: _select_doctor and _find_doctor_option.               *)
(***************************************************************************)
\* The doctors' names as texts; "," is the separator of doctor_name.split(',').
DoctorTokens ==
    << << "Dr. Michael Ayzin", ",", " DDS" >>,
       << "Dr. Ronald Ayzin", ",", " DDS" >> >>

\* doctor_name.split(',')[0]
short_name(doctor) == Split(doctor, ",")[1]

\* One candidate control of the page and what the page does when it is
\* handled: its inner_text(); scroll and click on it; the three lookups of
\* _find_doctor_option (s1, s3: is_visible of the first match; s2: whether an
\* attribute-tagged option's text holds the short name; s2vis: what
\* is_visible answers for that option, which is asked at line 387 only);
\* recheck: the is_visible call of line 387, which may raise and which, for
\* an option of strategy 1 or 3, asks the page a second time and may get
\* another answer; the scroll, the normal click and the forced click on the
\* option.
Candidate(label, open, s1, s2, s2vis, s3, recheck, scroll, click, force) ==
    [label |-> label, open |-> open, s1 |-> s1, s2 |-> s2, s2vis |-> s2vis,
     s3 |-> s3, recheck |-> recheck, scroll |-> scroll, click |-> click,
     force |-> force]

\* _find_doctor_option: the strategy whose option is returned (0: None) and
\* whether that option is visible when it is returned.
find_doctor_option(c) ==
    IF ~c.s1.raises /\ c.s1.value THEN [strategy |-> 1, visible |-> TRUE]
    ELSE IF ~c.s2.raises /\ c.s2.value THEN [strategy |-> 2, visible |-> c.s2vis]
    ELSE IF ~c.s3.raises /\ c.s3.value THEN [strategy |-> 3, visible |-> TRUE]
    ELSE [strategy |-> 0, visible |-> FALSE]

is_all_providers(label) ==
    \/ Contains(label, "All provider")
    \/ Contains(Lower(label), "provider availability")

activate_without_force(c) == IF ~c.click.raises THEN "click" ELSE "none"

\* lines 392-396: the normal click on the option and, if it raises, the
\* forced click; "none" when both raise
activate(c) ==
    IF ~c.click.raises THEN "click"
    ELSE IF ~c.force.raises THEN "force"
    ELSE "none"

scan_limit_first_only(cands) == IF Len(cands) = 0 THEN 0 ELSE 1

\* line 366: range(dropdown_count)
scan_limit(cands) == Len(cands)

RECURSIVE scan_dropdowns(_, _, _, _)
\* The loop of lines 366-408 from candidate i on; opened: the candidates
\* clicked open so far. inspected: the candidates whose label was asked for.
\* shown: the answer of is_visible at line 387.
scan_dropdowns(cands, i, short, opened) ==
    IF i > scan_limit(cands)
    THEN [selected |-> FALSE, at |-> 0, how |-> "none", opened |-> opened,
          strategy |-> 0, inspected |-> 1..(i - 1)]
    ELSE
    LET c == cands[i]
        next(o) == scan_dropdowns(cands, i + 1, short, o)
        done(how, o, st) == [selected |-> TRUE, at |-> i, how |-> how,
                             opened |-> o, strategy |-> st, inspected |-> 1..i]
        opt == find_doctor_option(c)
        shown == IF opt.strategy = 2 THEN opt.visible ELSE c.recheck.value
    IN  IF c.label.raises THEN next(opened)
        ELSE IF Contains(c.label.value, short) THEN done("already", opened, 0)
        ELSE IF is_all_providers(c.label.value) THEN
            IF c.open.raises THEN next(opened)
            ELSE IF opt.strategy = 0 THEN next(opened \cup {i})
            ELSE IF c.recheck.raises THEN next(opened \cup {i})
            ELSE IF ~shown THEN next(opened \cup {i})
            ELSE IF c.scroll.raises THEN next(opened \cup {i})
            ELSE IF activate(c) # "none"
                 THEN done(activate(c), opened \cup {i}, opt.strategy)
            ELSE next(opened \cup {i})
        ELSE next(opened)

\* One call of _select_doctor: count is the outcome of
\* provider_dropdowns.count(), cands the candidate controls of the page.
select_doctor(count, cands, doctor) ==
    LET scan == scan_dropdowns(cands, 1, short_name(doctor), {})
        failed(e) == [ok |-> FALSE, exc |-> e, at |-> 0, how |-> "none",
                      opened |-> {}, strategy |-> 0, inspected |-> {}]
    IN  IF count.raises
        THEN failed(DoctorSelectionError("Failed to select doctor: " \o count.value))
        ELSE IF Len(cands) = 0
        THEN failed(DoctorSelectionError("No provider dropdowns found on page"))
        ELSE IF ~scan.selected
        THEN [ok |-> FALSE,
              exc |-> DoctorSelectionError("Could not select " \o Join(doctor)),
              at |-> 0, how |-> "none", opened |-> scan.opened, strategy |-> 0,
              inspected |-> scan.inspected]
        ELSE [ok |-> TRUE, exc |-> None, at |-> scan.at, how |-> scan.how,
              opened |-> scan.opened, strategy |-> scan.strategy,
              inspected |-> scan.inspected]

\* Labels of candidate controls
ActiveLabel(doctor) == << short_name(doctor), ", DDS" >>

AllLabel == << "All provider", " availability" >>

OtherLabel == << "Choose a ", "location" >>

Yes == Returns(TRUE)

No == Returns(FALSE)

Boom == Raises("Error: element detached")

\* Candidate controls of the model
ActiveControl(doctor) ==
    Candidate(Returns(ActiveLabel(doctor)), Yes, No, No, FALSE, No, Yes, Yes, Yes, Yes)

OtherControl ==
    Candidate(Returns(OtherLabel), Yes, No, No, FALSE, No, Yes, Yes, Yes, Yes)

\* an "all providers" control whose option is found by strategy 1
AllControl ==
    Candidate(Returns(AllLabel), Yes, Yes, No, FALSE, No, Yes, Yes, Yes, Yes)

\* the normal click on the option fails, the forced click works
AllControlForced ==
    Candidate(Returns(AllLabel), Yes, Yes, No, FALSE, No, Yes, Yes, Boom, Yes)

\* opened, but no option matches
AllControlNoOption ==
    Candidate(Returns(AllLabel), Yes, No, No, FALSE, No, Yes, Yes, Yes, Yes)

\* What the page may show during one _select_doctor call of a run: the
\* outcome of count() and the candidate controls.
SelectInputs(doctor) ==
    { [count |-> Raises("count: page closed"), cands |-> << >>],
      [count |-> Returns(1), cands |-> << AllControlNoOption >>],
      [count |-> Returns(1), cands |-> << ActiveControl(doctor) >>],
      [count |-> Returns(2), cands |-> << OtherControl, AllControl >>] }

(***************************************************************************)
(* Modal extraction: _extract_appointments_from_modal and _process_modal.  *)
(***************************************************************************)
\* str.isspace() of one character: tab, newline, vertical tab (U+000B), form
\* feed, carriage return, the separators U+001C to U+001F, space, next line
\* (U+0085), no-break space (U+00A0) and ogham space (U+1680). The other
\* Unicode spaces (U+2000 to U+200A, U+2028, U+2029, U+202F, U+205F, U+3000)
\* are not accepted in a string by the parser and occur in no text here.
IsSpace(c) ==
    c \in { "\t", "\n", "", "\f", "\r", "", "", "", "", " ",
            "", " ", " " }

RECURSIVE LStrip(_)
\* str.lstrip(): the leading whitespace characters of the string are removed
LStrip(s) == IF Len(s) > 0 /\ IsSpace(Head(s)) THEN LStrip(Tail(s)) ELSE s

RECURSIVE RStrip(_)
\* str.rstrip(): the trailing whitespace characters of the string are removed
RStrip(s) ==
    IF Len(s) > 0 /\ IsSpace(SubSeq(s, Len(s), Len(s)))
    THEN RStrip(SubSeq(s, 1, Len(s) - 1))
    ELSE s

get_text_unstripped(text) == Join(text)

\* element.get_text(strip=True) of an element with one text node
get_text_strip(text) == RStrip(LStrip(Join(text)))

\* A timeslot element <a data-test="availability-modal-timeslot">: its text,
\* and its nearest ancestor date-wrapper (absent, or a wrapper whose
\* day-title child is absent or has a text).
Timeslot(text, wrapper) == [text |-> text, wrapper |-> wrapper]

NoTitle == [present |-> FALSE, text |-> << >>]

Title(text) == [present |-> TRUE, text |-> text]

NoWrapper == [present |-> FALSE, title |-> NoTitle]

Wrapper(title) == [present |-> TRUE, title |-> title]

appointment_of_without_space(timeslot, doctor) ==
    LET time_text == get_text_strip(timeslot.text)
        date_text ==
            IF timeslot.wrapper.present /\ timeslot.wrapper.title.present
            THEN get_text_strip(timeslot.wrapper.title.text)
            ELSE "Unknown Date"
    IN  [doctor |-> doctor, date |-> date_text, time |-> time_text,
         datetime |-> date_text \o time_text]

\* The appointment dict of lines 492-508 (scraped_at, a clock reading, left out).
appointment_of(timeslot, doctor) ==
    LET time_text == get_text_strip(timeslot.text)
        date_text ==
            IF timeslot.wrapper.present /\ timeslot.wrapper.title.present
            THEN get_text_strip(timeslot.wrapper.title.text)
            ELSE "Unknown Date"
    IN  [doctor |-> doctor, date |-> date_text, time |-> time_text,
         datetime |-> date_text \o " " \o time_text]

\* _extract_appointments_from_modal on the timeslot elements of the container
extract_appointments_from_modal(timeslots, doctor) ==
    [i \in 1..Len(timeslots) |-> appointment_of(timeslots[i], doctor)]

apt_key_with_doctor(apt) == << apt.doctor, apt.date, apt.time >>

\* lines 597, 600 and 811: the key (date, time) of an appointment
apt_key(apt) == << apt.date, apt.time >>

merge_all(apts, new, existing) == apts \o new

RECURSIVE merge_new(_, _, _)
\* lines 597-603: append the entries of new whose key is not in existing
merge_new(apts, new, existing) ==
    IF new = << >> THEN apts
    ELSE merge_new(IF apt_key(Head(new)) \in existing THEN apts
                   ELSE Append(apts, Head(new)),
                   Tail(new), existing)

\* A container element of the page, with the timeslots inside it
Absent == [present |-> FALSE, timeslots |-> << >>]

Present(timeslots) == [present |-> TRUE, timeslots |-> timeslots]

\* A parsed page: the primary container (availability-modal-view-container)
\* and the modal-content container; the timeslots outside both; marker:
\* whether the text availability-modal-timeslot occurs in the html, which an
\* attribute written with a character reference does not make it do.
PageDoc(primary, alt, loose, marker) ==
    [primary |-> primary, alt |-> alt, loose |-> loose, marker |-> marker]

all_timeslots(doc) == doc.primary.timeslots \o doc.alt.timeslots \o doc.loose

find_container_primary_only(doc) == IF doc.primary.present THEN "primary" ELSE "none"

\* lines 564-575: the container the appointments are extracted from; "page":
\* the whole page; "none": ModalNotFoundError is raised
find_container(doc) ==
    IF doc.primary.present THEN "primary"
    ELSE IF doc.alt.present THEN "alt"
    ELSE IF doc.marker THEN "page"
    ELSE "none"

modal_caught_uncounted ==
    [appointments |-> << >>, errors |-> 0, container |-> "none",
     paginated |-> FALSE, closed |-> FALSE]

\* lines 623-626: the handler at the boundary of _process_modal
modal_caught ==
    [appointments |-> << >>, errors |-> 1, container |-> "none",
     paginated |-> FALSE, closed |-> FALSE]

\* One call of _process_modal: the list it returns, the increment of
\* metrics['errors'], and what it did on the way.  An exception of
\* wait_for_selector (lines 550-557) is handled where it is raised.
process_modal(inp, doctor) ==
    LET caught == modal_caught
        doc == inp.content.value
        container == find_container(doc)
        timeslots ==
            CASE container = "primary" -> doc.primary.timeslots
              [] container = "alt" -> doc.alt.timeslots
              [] OTHER -> all_timeslots(doc)
        first == extract_appointments_from_modal(timeslots, doctor)
        more == ~inp.more_visible.raises /\ inp.more_visible.value
                /\ ~inp.more_click.raises /\ ~inp.content2.raises
                /\ inp.content2.value.primary.present
        merged ==
            IF more
            THEN merge_new(first,
                    extract_appointments_from_modal(
                        inp.content2.value.primary.timeslots, doctor),
                    { apt_key(first[i]) : i \in 1..Len(first) })
            ELSE first
        close_fails ==
            IF inp.close_visible.raises THEN inp.escape2.raises
            ELSE IF inp.close_visible.value
                 THEN inp.close_click.raises /\ inp.escape2.raises
                 ELSE inp.escape.raises /\ inp.escape2.raises
    IN  IF inp.click.raises \/ inp.content.raises THEN caught
        ELSE IF container = "none" THEN caught
        ELSE IF close_fails THEN caught
        ELSE [appointments |-> merged, errors |-> 0, container |-> container,
              paginated |-> more, closed |-> TRUE]

\* Timeslots and pages of the model
Jan26 == Wrapper(Title(<< " ", "Mon, Jan 26", " " >>))

Slot930 == Timeslot(<< "9:30 am" >>, Jan26)

Slot1000 == Timeslot(<< " ", "10:00 am", "\n" >>, Jan26)

SlotLoose == Timeslot(<< "9:30 am" >>, NoWrapper)

SlotBlank == Timeslot(<< " ", "\n" >>, Jan26)

ModalInput(click, wait, content, more_visible, more_click, content2, close_visible, close_click, escape, escape2) ==
    [click |-> click, wait |-> wait, content |-> content, more_visible |-> more_visible,
     more_click |-> more_click, content2 |-> content2,
     close_visible |-> close_visible, close_click |-> close_click,
     escape |-> escape, escape2 |-> escape2]

InModal(timeslots) ==
    Returns(PageDoc(Present(timeslots), Absent, << >>, timeslots # << >>))

\* What the page may do during one _process_modal call of a run.
ModalInputs ==
    { \* the trigger cannot be clicked
      ModalInput(Boom, Yes, InModal(<< >>), No, Yes, InModal(<< >>), Yes, Yes, Yes, Yes),
      \* an empty modal
      ModalInput(Yes, Yes, InModal(<< >>), No, Yes, InModal(<< >>), Yes, Yes, Yes, Yes),
      \* no container and no timeslot marker anywhere
      ModalInput(Yes, Yes, Returns(PageDoc(Absent, Absent, << >>, FALSE)), No, Yes,
                 InModal(<< >>), Yes, Yes, Yes, Yes),
      \* one timeslot; two timeslots
      ModalInput(Yes, Yes, InModal(<< Slot930 >>), No, Yes, InModal(<< >>), Yes, Yes, Yes, Yes),
      ModalInput(Yes, Yes, InModal(<< Slot930, Slot1000 >>), No, Yes, InModal(<< >>),
                 No, Yes, Yes, Yes),
      \* "show more" reveals a second batch
      ModalInput(Yes, Yes, InModal(<< Slot930 >>), Yes, Yes,
                 InModal(<< Slot930, Slot1000 >>), Yes, Yes, Yes, Yes),
      \* the modal cannot be closed
      ModalInput(Yes, Yes, InModal(<< Slot930 >>), No, Yes, InModal(<< >>), Yes, Boom,
                 Yes, Boom),
      \* the wait for the timeslots times out; "show more" cannot be clicked
      ModalInput(Yes, Boom, InModal(<< Slot930 >>), No, Yes, InModal(<< >>), Yes, Yes,
                 Yes, Yes),
      ModalInput(Yes, Yes, InModal(<< Slot930 >>), Yes, Boom, InModal(<< >>), Yes, Yes,
                 Yes, Yes) }

(***************************************************************************)
(* Retry executor: _retry_with_backoff.                                    *)
(***************************************************************************)
retry_delay_constant(attempt) == RETRY_DELAY

\* line 279
retry_delay(attempt) == RETRY_DELAY * Pow2(attempt)

should_sleep_always(attempt) == TRUE

\* line 278
should_sleep(attempt) == attempt < MAX_RETRIES - 1

raised_by_retry_wrapped ==
    IF last_exception = None THEN TypeError
    ELSE Exc("ZocDocScraperError", "All attempts failed: " \o last_exception.msg)

\* line 290: raise last_exception
raised_by_retry == IF last_exception = None THEN TypeError ELSE last_exception

start_retry_of_selection(func) ==
    /\ pc' = "retry"
    /\ r_func' = "select"
    /\ r_attempt' = 0
    /\ r_calls' = 0
    /\ r_sleeps' = << >>
    /\ last_exception' = None

\* lines 268-271: a call begins
start_retry(func) ==
    /\ pc' = "retry"
    /\ r_func' = func
    /\ r_attempt' = 0
    /\ r_calls' = 0
    /\ r_sleeps' = << >>
    /\ last_exception' = None

\* no call of the executor is active: its locals are gone
retry_idle ==
    /\ r_func' = "none"
    /\ r_attempt' = 0
    /\ r_calls' = 0
    /\ r_sleeps' = << >>
    /\ last_exception' = None

\* line 273: func returned
retry_return ==
    /\ pc' = "returned"
    /\ r_calls' = r_calls + 1
    /\ UNCHANGED << r_func, r_attempt, r_sleeps, last_exception >>

retry_except_without_attempt_count(e, m) ==
    /\ last_exception' = e
    /\ metrics' = [m EXCEPT !.retries = @ + 1]
    /\ r_calls' = r_calls + 1
    /\ r_sleeps' = IF should_sleep(r_attempt)
                   THEN Append(r_sleeps, retry_delay(r_attempt))
                   ELSE r_sleeps
    /\ r_attempt' = r_attempt
    /\ UNCHANGED << pc, r_func >>

retry_except_counting_per_call(e, m) ==
    /\ last_exception' = e
    /\ metrics' = [m EXCEPT !.retries = r_attempt + 1]
    /\ r_calls' = r_calls + 1
    /\ r_sleeps' = IF should_sleep(r_attempt)
                   THEN Append(r_sleeps, retry_delay(r_attempt))
                   ELSE r_sleeps
    /\ r_attempt' = r_attempt + 1
    /\ UNCHANGED << pc, r_func >>

\* lines 274-288: func raised e; m is metrics as func left it
retry_except(e, m) ==
    /\ last_exception' = e
    /\ metrics' = [m EXCEPT !.retries = @ + 1]
    /\ r_calls' = r_calls + 1
    /\ r_sleeps' = IF should_sleep(r_attempt)
                   THEN Append(r_sleeps, retry_delay(r_attempt))
                   ELSE r_sleeps
    /\ r_attempt' = r_attempt + 1
    /\ UNCHANGED << pc, r_func >>

(***************************************************************************)
(* The orchestrator: run().                                                *)
(***************************************************************************)
ScraperErrors ==
    { "ZocDocScraperError", "ProxyConnectionError", "PageLoadError",
      "DoctorSelectionError", "ModalNotFoundError", "DataExtractionError" }

is_connection_error_never(e) == FALSE

is_connection_error_any(e) == TRUE

\* line 819: except (PageLoadError, ProxyConnectionError)
is_connection_error(e) == e.mro \cap { "PageLoadError", "ProxyConnectionError" } # {}

outer_catches_scraper_errors(e) == e.type \in ScraperErrors

\* line 839: except Exception catches the exceptions whose class is
\* Exception or derives from it
outer_catches(e) == "Exception" \in e.mro

camoufox_exit_leak(n) == n

\* line 743: leaving the with block closes the session
camoufox_exit(n) == n - 1

\* lines 840, 805
duration == [elapsed |-> start_time # None]

\* lines 844-850
failure_result(e, m) ==
    [success |-> FALSE, error |-> e.msg, error_type |-> e.type,
     duration |-> duration, metrics |-> m]

proxy_used_label_index(ub, bi) ==
    IF ub THEN "backup_" \o ToString(bi) ELSE "primary"

\* line 816
proxy_used_label(ub, bi) ==
    IF ub THEN "backup_" \o ToString(bi + 1) ELSE "primary"

no_appointments_error_modal == ModalNotFoundError("No appointments collected for any doctor")

\* line 800
no_appointments_error == DataExtractionError("No appointments collected for any doctor")

\* lines 808-817
success_result(m) ==
    [success |-> TRUE,
     appointments_count |-> Len(appointments),
     unique_count |->
        Cardinality({ apt_key(appointments[i]) : i \in 1..Len(appointments) }),
     duration |-> duration, metrics |-> m,
     proxy_used |-> proxy_used_label(use_backup, backup_index)]

return_failure_trying_next_proxy(e, m) ==
    IF proxy_attempt < max_proxy_attempts - 1
    THEN pc' = "launch" /\ result' = result /\ escaped' = escaped
    ELSE /\ pc' = "done"
         /\ result' = failure_result(e, m)
         /\ escaped' = escaped

\* lines 839-850: final_error reaches the outer handler
return_failure(e, m) ==
    /\ pc' = "done"
    /\ IF outer_catches(e)
       THEN result' = failure_result(e, m) /\ escaped' = escaped
       ELSE result' = result /\ escaped' = e

\* lines 819-837: e is raised inside the session body, with metrics m
raise_in_session(e, m) ==
    /\ metrics' = m
    /\ open_sessions' = camoufox_exit(open_sessions)
    /\ IF is_connection_error(e)
       THEN IF proxy_attempt < max_proxy_attempts - 1
            THEN /\ pc' = "launch"
                 /\ proxy_attempt' = proxy_attempt + 1
                 /\ UNCHANGED << result, escaped >>
            ELSE /\ proxy_attempt' = proxy_attempt
                 /\ return_failure(e, m)
       ELSE /\ proxy_attempt' = proxy_attempt
            /\ return_failure(e, m)

\* line 753: the doctor loop reaches the doctor at index i (0-based)
begin_doctor(i) ==
    IF i < Len(TARGET_DOCTORS)
    THEN /\ doctor_index' = i
         /\ current_doctor' = TARGET_DOCTORS[i + 1]
         /\ start_retry("load")
    ELSE /\ pc' = "finish"
         /\ retry_idle
         /\ UNCHANGED << doctor_index, current_doctor >>

\* Python's None where the value is otherwise a string
NoneStr == "None"

ConfigInit ==
    /\ PROXY_ENABLED \in BOOLEAN
    /\ PROXY_BACKUP_LIST \in RunBackupLists
    /\ MAX_RETRIES \in 1..MaxRetries

\* ZocDocScraper.__init__ (lines 195-204): the fields but the appointments
\* and the current doctor, and the locals of run() before it is called
ScraperFields ==
    /\ start_time = None
    /\ metrics = [page_loads |-> 0, retries |-> 0, errors |-> 0,
                  appointments_found |-> 0]
    /\ max_proxy_attempts = 0
    /\ proxy_attempt = 0
    /\ use_backup = FALSE
    /\ backup_index = 0
    /\ proxy = None
    /\ result = None
    /\ escaped = None
    /\ launch_log = << >>
    /\ r_func = "none"
    /\ r_attempt = 0
    /\ last_exception = None
    /\ r_calls = 0
    /\ r_sleeps = << >>
    /\ last_call = None
    /\ faults = 0
    /\ exports = None

\* ZocDocScraper.__init__ (lines 195-204), run() not yet called
ScraperInit ==
    /\ ScraperFields
    /\ appointments = << >>
    /\ current_doctor = NoneStr
    /\ pc = "start"
    /\ doctor_index = 0
    /\ button_count = 0
    /\ idx = 0
    /\ open_sessions = 0
    /\ unit_input = None

\* app.py, lines 21-26; no request and no thread yet
AppInit ==
    /\ scraper_status = [running |-> FALSE, last_run |-> NoneStr,
                         last_result |-> None, appointments |-> << >>]
    /\ requests = << >>
    /\ threads = << >>
    /\ queries = << >>

Init == ConfigInit /\ ScraperInit /\ AppInit

\* A collaborator fails: one more of the MaxFaults failures of the run
fault(failed) ==
    IF failed THEN faults < MaxFaults /\ faults' = faults + 1
    ELSE faults' = faults

\* run(), lines 727-733
run_begin ==
    /\ pc = "start"
    /\ start_time' = [t |-> 0]
    /\ max_proxy_attempts' = compute_max_proxy_attempts
    /\ proxy_attempt' = 0
    /\ pc' = "launch"
    /\ UNCHANGED << configVars, appointments, current_doctor, metrics,
                    use_backup, backup_index, proxy, doctor_index,
                    button_count, idx, result, escaped, open_sessions,
                    launch_log, retryVars, callVars, appVars, unitVars >>

\* lines 733-753: one iteration of the proxy loop opens its session; the
\* launch or new_page() may raise
launch ==
    /\ pc = "launch"
    /\ proxy_attempt < max_proxy_attempts
    /\ \E outcome \in { "ok", "launch_raises", "new_page_raises" } :
        LET ub == proxy_attempt > 0
            bi == IF ub THEN proxy_attempt - 1 ELSE 0
            p == get_proxy_config(ub, bi)
        IN  /\ fault(outcome # "ok")
            /\ use_backup' = ub
            /\ backup_index' = bi
            /\ proxy' = p
            /\ launch_log' = Append(launch_log,
                    [attempt |-> proxy_attempt, proxy |-> p,
                     opened |-> outcome # "launch_raises"])
            /\ CASE outcome = "ok" ->
                    /\ open_sessions' = open_sessions + 1
                    /\ begin_doctor(0)
                    /\ UNCHANGED << result, escaped >>
                 [] outcome = "launch_raises" ->
                    /\ open_sessions' = open_sessions
                    /\ return_failure(BrowserError("launch: browser failed to start"), metrics)
                    /\ UNCHANGED << doctor_index, current_doctor, retryVars >>
                 [] outcome = "new_page_raises" ->
                    /\ open_sessions' = camoufox_exit(open_sessions + 1)
                    /\ return_failure(BrowserError("new_page: browser closed"), metrics)
                    /\ UNCHANGED << doctor_index, current_doctor, retryVars >>
    /\ UNCHANGED << configVars, start_time, appointments, metrics, max_proxy_attempts, proxy_attempt, button_count, idx,
                    last_call, appVars, unitVars >>

\* line 760, one iteration of the retry loop around _load_page
retry_load_page ==
    /\ pc = "retry"
    /\ r_func = "load"
    /\ r_attempt < MAX_RETRIES
    /\ \E inp \in LoadInputs :
        LET out == load_page(inp)
            m == [metrics EXCEPT !.page_loads = @ + out.page_loads]
        IN  /\ fault(~out.ok)
            /\ last_call' = out
            /\ IF out.ok THEN retry_return /\ metrics' = m
               ELSE retry_except(out.exc, m)
    /\ UNCHANGED << configVars, start_time, appointments, current_doctor,
                    max_proxy_attempts, proxy_attempt, use_backup,
                    backup_index, proxy, doctor_index, button_count, idx,
                    result, escaped, open_sessions, launch_log, appVars, unitVars >>

\* line 763, one iteration of the retry loop around _select_doctor
retry_select_doctor ==
    /\ pc = "retry"
    /\ r_func = "select"
    /\ r_attempt < MAX_RETRIES
    /\ \E inp \in SelectInputs(DoctorTokens[doctor_index + 1]) :
        LET out == select_doctor(inp.count, inp.cands, DoctorTokens[doctor_index + 1])
        IN  /\ fault(~out.ok)
            /\ last_call' = out
            /\ IF out.ok THEN retry_return /\ metrics' = metrics
               ELSE retry_except(out.exc, metrics)
    /\ UNCHANGED << configVars, start_time, appointments, current_doctor,
                    max_proxy_attempts, proxy_attempt, use_backup,
                    backup_index, proxy, doctor_index, button_count, idx,
                    result, escaped, open_sessions, launch_log, appVars, unitVars >>

\* line 290: the retry loop ended without a return
retry_raise ==
    /\ pc = "retry"
    /\ r_attempt >= MAX_RETRIES
    /\ raise_in_session(raised_by_retry, metrics)
    /\ retry_idle
    /\ last_call' = None
    /\ UNCHANGED << configVars, start_time, appointments, current_doctor,
                    max_proxy_attempts, use_backup, backup_index, proxy,
                    doctor_index, button_count, idx, launch_log, faults,
                    appVars, unitVars >>

\* lines 760-763: _load_page returned, the selection call begins
after_load ==
    /\ pc = "returned"
    /\ r_func = "load"
    /\ start_retry("select")
    /\ last_call' = None
    /\ UNCHANGED << configVars, start_time, appointments, current_doctor,
                    metrics, max_proxy_attempts, proxy_attempt,
                    use_backup, backup_index, proxy, doctor_index,
                    button_count, idx, result, escaped, open_sessions,
                    launch_log, faults, appVars, unitVars >>

\* lines 772-776 with the condition reversed: a target without triggers ends
\* the run
fail_without_buttons ==
    /\ raise_in_session(DataExtractionError("No 'View more availability' buttons found"),
                        metrics)
    /\ retry_idle
    /\ button_count' = 0
    /\ UNCHANGED << doctor_index, current_doctor, idx >>

\* lines 770-776: button_count is 0: a warning, the debug artifacts, and the
\* doctor loop continues with the next doctor
continue_without_buttons ==
    /\ button_count' = 0
    /\ begin_doctor(doctor_index + 1)
    /\ UNCHANGED << metrics, open_sessions, proxy_attempt, result, escaped, idx >>

\* lines 765-778: _select_doctor returned, the triggers of the current doctor
\* are counted
find_buttons ==
    /\ pc = "returned"
    /\ r_func = "select"
    /\ \E count \in { Raises(BrowserError("count: page closed")),
                      Raises(Exc("TimeoutError", "Timeout 30000ms exceeded")) }
                    \cup { Returns(n) : n \in 0..MaxButtons } :
        /\ fault(count.raises)
        /\ IF count.raises
           THEN /\ raise_in_session(count.value, metrics)
                /\ retry_idle
                /\ UNCHANGED << doctor_index, current_doctor, button_count,
                                idx >>
           ELSE IF count.value = 0
           THEN continue_without_buttons
           ELSE /\ button_count' = count.value
                /\ idx' = 0
                /\ pc' = "modal"
                /\ retry_idle
                /\ UNCHANGED << metrics, open_sessions, proxy_attempt, result,
                                escaped, doctor_index, current_doctor >>
    /\ last_call' = None
    /\ UNCHANGED << configVars, start_time, appointments, max_proxy_attempts,
                    use_backup, backup_index, proxy, launch_log, appVars, unitVars >>

\* lines 781-795: one trigger is processed
modal ==
    /\ pc = "modal"
    /\ \E inp \in ModalInputs :
        LET out == process_modal(inp, current_doctor)
        IN  /\ fault(out.errors > 0)
            /\ Len(appointments) + Len(out.appointments) <= MaxAppointments
            /\ appointments' = appointments \o out.appointments
            /\ metrics' = [metrics EXCEPT !.errors = @ + out.errors]
    /\ IF idx + 1 < button_count
       THEN /\ idx' = idx + 1
            /\ button_count' = button_count
            /\ UNCHANGED << pc, doctor_index, current_doctor, retryVars >>
       ELSE /\ idx' = 0
            /\ button_count' = 0
            /\ begin_doctor(doctor_index + 1)
    /\ UNCHANGED << configVars, start_time, max_proxy_attempts,
                    proxy_attempt, use_backup, backup_index, proxy, result,
                    escaped, open_sessions, launch_log, last_call, appVars, unitVars >>

RECURSIVE drop_duplicates_from(_, _)
\* line 689: df.drop_duplicates(subset=['date', 'time']), keep='first'; seen:
\* the keys of the rows kept so far
drop_duplicates_from(apts, seen) ==
    IF apts = << >> THEN << >>
    ELSE IF apt_key(Head(apts)) \in seen
         THEN drop_duplicates_from(Tail(apts), seen)
         ELSE << Head(apts) >>
              \o drop_duplicates_from(Tail(apts), seen \cup { apt_key(Head(apts)) })

RECURSIVE drop_duplicates_keep_last(_)
drop_duplicates_keep_last(apts) ==
    IF apts = << >> THEN << >>
    ELSE IF \E i \in 2..Len(apts) : apt_key(apts[i]) = apt_key(Head(apts))
         THEN drop_duplicates_keep_last(Tail(apts))
         ELSE << Head(apts) >> \o drop_duplicates_keep_last(Tail(apts))

drop_duplicates(apts) == drop_duplicates_from(apts, {})

written_exports_cleaned_only(apts) ==
    [raw |-> drop_duplicates(apts), cleaned |-> drop_duplicates(apts)]

\* lines 680-691: the rows of the raw file and of the cleaned file
written_exports(apts) == [raw |-> apts, cleaned |-> drop_duplicates(apts)]

\* What the file system does during one _save_results call: the outcome of
\* the to_csv of the raw file (line 685) and of the cleaned file (line 691).
WriteOutcomes ==
    { [raw |-> Returns(TRUE), cleaned |-> Returns(TRUE)],
      [raw |-> Raises("OSError: No space left on device"), cleaned |-> Returns(TRUE)],
      [raw |-> Returns(TRUE), cleaned |-> Raises("OSError: No space left on device")] }

\* _save_results, lines 676-698: the exception it raises, None when it returns
save_results(write) ==
    IF appointments = << >>
    THEN DataExtractionError("Failed to save results: No appointments to save")
    ELSE IF write.raw.raises
    THEN DataExtractionError("Failed to save results: " \o write.raw.value)
    ELSE IF write.cleaned.raises
    THEN DataExtractionError("Failed to save results: " \o write.cleaned.value)
    ELSE None

\* lines 676-691: the files on disk after the call; a failure of the second
\* to_csv leaves the raw file written and the cleaned file not written
saved_exports(write) ==
    IF appointments = << >> \/ write.raw.raises THEN exports
    ELSE IF write.cleaned.raises
    THEN [raw |-> written_exports(appointments).raw, cleaned |-> "not written"]
    ELSE written_exports(appointments)

\* lines 797-817: every doctor is processed
finish ==
    /\ pc = "finish"
    /\ \E write \in WriteOutcomes :
        LET m == [metrics EXCEPT !.appointments_found = Len(appointments)]
        IN  /\ fault(write.raw.raises \/ write.cleaned.raises)
            /\ IF appointments = << >>
               THEN /\ raise_in_session(no_appointments_error, m)
                    /\ exports' = exports
               ELSE IF save_results(write) # None
               THEN /\ raise_in_session(save_results(write), m)
                    /\ exports' = saved_exports(write)
               ELSE /\ metrics' = m
                    /\ result' = success_result(m)
                    /\ exports' = saved_exports(write)
                    /\ open_sessions' = camoufox_exit(open_sessions)
                    /\ pc' = "done"
                    /\ UNCHANGED << proxy_attempt, escaped >>
    /\ UNCHANGED << configVars, start_time, appointments, current_doctor,
                    max_proxy_attempts, use_backup, backup_index, proxy,
                    doctor_index, button_count, idx, launch_log, retryVars,
                    last_call, appVars, unit_input >>

Next ==
    \/ run_begin
    \/ launch
    \/ retry_load_page
    \/ retry_select_doctor
    \/ retry_raise
    \/ after_load
    \/ find_buttons
    \/ modal
    \/ finish

Spec == Init /\ [][Next]_vars

\* Every call run() makes to a collaborator returns or raises, so a run that
\* can take a step takes one.
FairSpec == Spec /\ WF_vars(Next)

(***************************************************************************)
(* The trigger layer: app.py.                                              *)
(***************************************************************************)
\* The appointment a run of the trigger layer collects
AppAppointment ==
    [doctor |-> TARGET_DOCTORS[1], date |-> "Mon, Jan 26", time |-> "9:30 am",
     datetime |-> "Mon, Jan 26 9:30 am"]

LaterAppointment ==
    [doctor |-> TARGET_DOCTORS[1], date |-> "Mon, Jan 26", time |-> "10:00 am",
     datetime |-> "Mon, Jan 26 10:00 am"]

\* What ZocDocScraper(logger) and scraper.run() do in one background thread
\* (lines 38-39): run() returns its result dict and leaves the appointments
\* in scraper.appointments, or the constructor raises.
RunOutcomes ==
    { Returns([result |-> [success |-> TRUE, appointments_count |-> 1],
               appointments |-> << AppAppointment >>]),
      Returns([result |-> [success |-> TRUE, appointments_count |-> 2],
               appointments |-> << AppAppointment, LaterAppointment >>]),
      Returns([result |-> [success |-> FALSE,
                           error |-> "No appointments collected for any doctor",
                           error_type |-> "DataExtractionError"],
               appointments |-> << >>]),
      Returns([result |-> [success |-> FALSE,
                           error |-> "Failed to save results: OSError",
                           error_type |-> "DataExtractionError"],
               appointments |-> << AppAppointment >>]),
      Raises([error |-> "mkdir: permission denied", error_type |-> "PermissionError"]) }

\* the threads that have been started and have not finished run_scraper_async
live_threads == { t \in 1..Len(threads) : threads[t].pc # "done" }

\* the threads between line 34 and the return of scraper.run()
running_threads == { t \in 1..Len(threads) : threads[t].pc = "running" }

\* The class body ran with the defaults of the environment (lines 41-61)
AppSpecInit ==
    /\ PROXY_ENABLED = TRUE
    /\ PROXY_BACKUP_LIST = << >>
    /\ MAX_RETRIES = 3
    /\ ScraperInit
    /\ AppInit

\* a client sends a request to '/': Flask (threaded=True) hands it to a
\* handler thread that has not run yet
request_arrives ==
    /\ Len(requests) < MaxRequests
    /\ requests' = Append(requests, [pc |-> "check", status |-> 0,
                                     response |-> NoneStr])
    /\ UNCHANGED << configVars, runVars, retryVars, callVars, scraper_status,
                    threads, queries, unitVars >>

\* trigger_scraper, lines 80-84: the check of scraper_status['running']
trigger_scraper_check ==
    /\ \E r \in 1..Len(requests) :
        /\ requests[r].pc = "check"
        /\ requests' =
            [requests EXCEPT ![r] =
                IF scraper_status.running
                THEN [pc |-> "done", status |-> 409,
                      response |-> "already_running"]
                ELSE [pc |-> "start", status |-> 0, response |-> NoneStr]]
    /\ UNCHANGED << configVars, runVars, retryVars, callVars, scraper_status,
                    threads, queries, unitVars >>

\* the request handler r has started its background thread
thread_started(r) == \E t \in 1..Len(threads) : threads[t].by = r

\* trigger_scraper, lines 86-95: request.get_json() is called for a POST with
\* a JSON content type and raises when the body cannot be decoded, which
\* handle_error (lines 200-210) answers with 500; otherwise the thread is
\* started, and the handler has not answered yet
trigger_scraper_start ==
    /\ \E r \in 1..Len(requests) :
        /\ requests[r].pc = "start"
        /\ ~thread_started(r)
        /\ \E get_json \in { Returns("params"),
                              Raises("400 Bad Request: Failed to decode JSON object") } :
            IF get_json.raises
            THEN /\ requests' = [requests EXCEPT ![r].pc = "done", ![r].status = 500,
                                                 ![r].response = "error"]
                 /\ threads' = threads
            ELSE /\ threads' = Append(threads, [pc |-> "created", by |-> r,
                                                out |-> None])
                 /\ requests' = requests
    /\ UNCHANGED << configVars, runVars, retryVars, callVars, scraper_status, queries, unitVars >>

\* trigger_scraper, lines 97-101: 202 is returned after thread.start()
trigger_scraper_respond ==
    /\ \E r \in 1..Len(requests) :
        /\ requests[r].pc = "start"
        /\ thread_started(r)
        /\ requests' = [requests EXCEPT ![r].pc = "done", ![r].status = 202,
                                        ![r].response = "started"]
    /\ UNCHANGED << configVars, runVars, retryVars, callVars, scraper_status,
                    threads, queries, unitVars >>

\* run_scraper_async, line 34: the thread sets the running flag
run_scraper_async_begin ==
    /\ \E t \in 1..Len(threads) :
        /\ threads[t].pc = "created"
        /\ threads' = [threads EXCEPT ![t].pc = "marked"]
        /\ scraper_status' = [scraper_status EXCEPT !.running = TRUE]
    /\ UNCHANGED << configVars, runVars, retryVars, callVars, requests, queries, unitVars >>

\* run_scraper_async, line 35: last_run is set, a statement of its own after
\* the flag; the thread then goes on to scraper.run()
run_scraper_async_last_run ==
    /\ \E t \in 1..Len(threads) :
        /\ threads[t].pc = "marked"
        /\ threads' = [threads EXCEPT ![t].pc = "running"]
        /\ scraper_status' = [scraper_status EXCEPT !.last_run = "in_progress"]
    /\ UNCHANGED << configVars, runVars, retryVars, callVars, requests, queries, unitVars >>

\* lines 42-47: what the thread stores as last_result when run() returned out
stored_result(out) ==
    IF out.result.success /\ out.appointments # << >>
    THEN [success |-> TRUE,
          appointments_count |-> out.result.appointments_count,
          appointments |-> out.appointments]
    ELSE out.result

\* run_scraper_async, lines 37-45: ZocDocScraper(logger) and scraper.run()
\* return or raise; the appointments of a successful run are stored (line 43)
\* before the result is
run_scraper_async_run ==
    /\ \E t \in 1..Len(threads), outcome \in RunOutcomes :
        /\ threads[t].pc = "running"
        /\ threads' = [threads EXCEPT ![t].pc = IF outcome.raises THEN "except"
                                                ELSE "store",
                                      ![t].out = outcome]
        /\ scraper_status' =
            IF ~outcome.raises /\ outcome.value.result.success
               /\ outcome.value.appointments # << >>
            THEN [scraper_status EXCEPT !.appointments = outcome.value.appointments]
            ELSE scraper_status
    /\ UNCHANGED << configVars, runVars, retryVars, callVars, requests, queries, unitVars >>

\* run_scraper_async, line 47 and lines 57-62: last_result is stored
run_scraper_async_store ==
    /\ \E t \in 1..Len(threads) :
        /\ threads[t].pc \in { "store", "except" }
        /\ threads' = [threads EXCEPT ![t].pc = "clear"]
        /\ scraper_status' =
            [scraper_status EXCEPT
                !.last_result =
                    IF threads[t].out.raises
                    THEN [success |-> FALSE,
                          error |-> threads[t].out.value.error,
                          error_type |-> threads[t].out.value.error_type]
                    ELSE stored_result(threads[t].out.value)]
    /\ UNCHANGED << configVars, runVars, retryVars, callVars, requests, queries, unitVars >>

\* run_scraper_async, lines 48 and 63: the flag is cleared and the thread ends
run_scraper_async_end ==
    /\ \E t \in 1..Len(threads) :
        /\ threads[t].pc = "clear"
        /\ threads' = [threads EXCEPT ![t].pc = "done"]
        /\ scraper_status' = [scraper_status EXCEPT !.running = FALSE]
    /\ UNCHANGED << configVars, runVars, retryVars, callVars, requests, queries, unitVars >>

AppNext ==
    \/ request_arrives
    \/ trigger_scraper_check
    \/ trigger_scraper_start
    \/ trigger_scraper_respond
    \/ run_scraper_async_begin
    \/ run_scraper_async_last_run
    \/ run_scraper_async_run
    \/ run_scraper_async_store
    \/ run_scraper_async_end

AppSpec == AppSpecInit /\ [][AppNext]_vars

\* A thread that was started is scheduled, and scraper.run() comes to an end.
AppFairSpec ==
    /\ AppSpec
    /\ WF_vars(run_scraper_async_begin)
    /\ WF_vars(run_scraper_async_last_run)
    /\ WF_vars(run_scraper_async_run)
    /\ WF_vars(run_scraper_async_store)
    /\ WF_vars(run_scraper_async_end)

\* a client sends GET /results: Flask hands it to a handler thread that has
\* not run yet
query_arrives ==
    /\ Len(queries) < MaxQueries
    /\ queries' = Append(queries, [pc |-> "check", result_data |-> None,
                                   response |-> None])
    /\ UNCHANGED << configVars, runVars, retryVars, callVars, scraper_status,
                    requests, threads, unitVars >>

\* result_data[k] = v
set_item(result_data, k, v) ==
    [x \in DOMAIN result_data \cup { k } |-> IF x = k THEN v ELSE result_data[x]]

\* get_results, lines 141-145: the first read of scraper_status['last_result']
get_results_check ==
    /\ \E q \in 1..Len(queries) :
        /\ queries[q].pc = "check"
        /\ queries' =
            [queries EXCEPT ![q] =
                IF scraper_status.last_result = None
                THEN [pc |-> "done", result_data |-> None,
                      response |-> [code |-> 404, status |-> "no_results"]]
                ELSE [@ EXCEPT !.pc = "copy"]]
    /\ UNCHANGED << configVars, runVars, retryVars, callVars, scraper_status,
                    requests, threads, unitVars >>

\* get_results, line 147: result_data = scraper_status['last_result'].copy()
get_results_copy ==
    /\ \E q \in 1..Len(queries) :
        /\ queries[q].pc = "copy"
        /\ queries' = [queries EXCEPT ![q].pc = "test",
                                      ![q].result_data = scraper_status.last_result]
    /\ UNCHANGED << configVars, runVars, retryVars, callVars, scraper_status,
                    requests, threads, unitVars >>

\* get_results, line 150: if scraper_status['appointments']
get_results_test ==
    /\ \E q \in 1..Len(queries) :
        /\ queries[q].pc = "test"
        /\ queries' = [queries EXCEPT ![q].pc =
                            IF scraper_status.appointments # << >>
                            THEN "appointments" ELSE "respond"]
    /\ UNCHANGED << configVars, runVars, retryVars, callVars, scraper_status,
                    requests, threads, unitVars >>

\* get_results, line 151: result_data['appointments'] is read from
\* scraper_status again
get_results_appointments ==
    /\ \E q \in 1..Len(queries) :
        /\ queries[q].pc = "appointments"
        /\ queries' = [queries EXCEPT ![q].pc = "count",
                                      ![q].result_data =
                                            set_item(@, "appointments",
                                                     scraper_status.appointments)]
    /\ UNCHANGED << configVars, runVars, retryVars, callVars, scraper_status,
                    requests, threads, unitVars >>

\* get_results, line 152: result_data['appointments_count'] is the length of
\* scraper_status['appointments'], read once more
get_results_count ==
    /\ \E q \in 1..Len(queries) :
        /\ queries[q].pc = "count"
        /\ queries' = [queries EXCEPT ![q].pc = "respond",
                                      ![q].result_data =
                                            set_item(@, "appointments_count",
                                                     Len(scraper_status.appointments))]
    /\ UNCHANGED << configVars, runVars, retryVars, callVars, scraper_status,
                    requests, threads, unitVars >>

\* get_results, lines 154-157: the status is decided by one more read of
\* scraper_status['last_result']
get_results_respond ==
    /\ \E q \in 1..Len(queries) :
        /\ queries[q].pc = "respond"
        /\ queries' = [queries EXCEPT ![q].pc = "done",
                                      ![q].response =
                                        [code |-> 200,
                                         status |-> IF scraper_status.last_result.success
                                                    THEN "success" ELSE "failed",
                                         result |-> queries[q].result_data]]
    /\ UNCHANGED << configVars, runVars, retryVars, callVars, scraper_status,
                    requests, threads, unitVars >>

\* get_results, lines 133-157, statement by statement
get_results ==
    \/ get_results_check
    \/ get_results_copy
    \/ get_results_test
    \/ get_results_appointments
    \/ get_results_count
    \/ get_results_respond

\* The trigger layer with clients of '/results'
ResultsNext ==
    \/ AppNext
    \/ query_arrives
    \/ get_results

ResultsSpec == AppSpecInit /\ [][ResultsNext]_vars

(***************************************************************************)
(* Properties.                                                             *)
(***************************************************************************)
\* the positions of run() inside the session body (lines 751-817)
InSessionBody == pc \in { "retry", "returned", "modal", "finish" }

\* the retry executor has used every attempt and is about to raise (line 290)
Exhausted == pc = "retry" /\ r_attempt >= MAX_RETRIES

ConnectionKinds == { "PageLoadError", "ProxyConnectionError" }

\* C1: when navigation ends in a PageLoadError that survived the retry
\* executor during proxy attempt i, then, if i is not the last attempt, the
\* session is closed and the run moves to proxy attempt i+1 without a result,
\* and the session opened for an attempt starts the target loop at the first
\* target; if i is the last attempt the run ends with a failure result.
C1_ConnectionFailureFailsOver ==
    [][ /\ (Exhausted /\ r_func = "load") =>
            IF proxy_attempt < max_proxy_attempts - 1
            THEN /\ pc' = "launch"
                 /\ proxy_attempt' = proxy_attempt + 1
                 /\ open_sessions' = 0
                 /\ result' = None
            ELSE /\ pc' = "done"
                 /\ result' # None
                 /\ ~result'.success
                 /\ result'.error_type = "PageLoadError"
        /\ (pc = "launch" /\ pc' # "done") =>
            /\ pc' = "retry"
            /\ r_func' = "load"
            /\ open_sessions' = 1
            /\ Len(launch_log') = proxy_attempt + 1
            /\ doctor_index' = 0
            /\ current_doctor' = TARGET_DOCTORS[1] ]_vars

\* C1 witness: after the first target yielded appointments on attempt 0, a
\* navigation failure moved the run to attempt 1, whose session is loading
\* the first target again
C1_Witness ==
    /\ pc = "retry"
    /\ r_func = "load"
    /\ proxy_attempt = 1
    /\ Len(launch_log) = 2
    /\ open_sessions = 1
    /\ doctor_index = 0
    /\ appointments # << >>

\* C2: a failure raised inside the session body that is not connection-class
\* ends the run at once with a failure result: every step that leaves the
\* session body, other than the exhaustion of the retries around _load_page,
\* ends the run on the same proxy attempt without another launch, and an
\* exhausted target selection is reported with its own kind.
C2_OtherFailuresAreFatal ==
    [][ /\ (InSessionBody /\ ~InSessionBody' /\ ~(Exhausted /\ r_func = "load")) =>
            /\ pc' = "done"
            /\ result' # None
            /\ proxy_attempt' = proxy_attempt
            /\ launch_log' = launch_log
            /\ (result'.success \/ result'.error_type \notin ConnectionKinds)
        /\ (Exhausted /\ r_func = "select") =>
            /\ pc' = "done"
            /\ result' # None
            /\ ~result'.success
            /\ result'.error_type = "DoctorSelectionError" ]_vars

\* C2 witness: a target selection failure ended the run on the primary
\* attempt although backup proxies remained
C2_Witness ==
    /\ pc = "done"
    /\ result # None
    /\ ~result.success
    /\ result.error_type = "DoctorSelectionError"
    /\ proxy_attempt = 0
    /\ max_proxy_attempts > 1

\* C3: no exception escapes run(); a run that has not returned has no result
\* and can take a step; a run that returned has a result, and a failure
\* result carries the error message, the error kind, the elapsed duration
\* and the metrics accumulated so far.
C3_RunAlwaysReturnsAResult ==
    /\ escaped = None
    /\ pc # "done" => result = None /\ ENABLED Next
    /\ pc = "done" =>
        /\ result # None
        /\ result.success \in BOOLEAN
        /\ ~result.success =>
            /\ DOMAIN result = { "success", "error", "error_type", "duration", "metrics" }
            /\ result.error # ""
            /\ result.error_type \in ScraperErrors \cup { "Error", "TimeoutError" }
            /\ result.duration = [elapsed |-> TRUE]
            /\ result.metrics = metrics

\* C3 witness: a browser error raised while the triggers were counted, after
\* pages were loaded, is returned as a failure result
C3_Witness ==
    /\ pc = "done"
    /\ result # None
    /\ ~result.success
    /\ result.error_type = "Error"
    /\ result.metrics.page_loads > 0

\* C4: at most one session is open; it is open exactly while run() is inside
\* the session body, so it is closed before the next proxy attempt launches
\* and before run() returns; every proxy attempt launches once.
C4_OneSessionAtATime ==
    /\ open_sessions \in { 0, 1 }
    /\ InSessionBody => open_sessions = 1
    /\ pc \in { "start", "launch", "done" } => open_sessions = 0
    /\ \A k \in 1..Len(launch_log) : launch_log[k].attempt = k - 1
    /\ pc = "launch" => Len(launch_log) = proxy_attempt
    /\ InSessionBody => Len(launch_log) = proxy_attempt + 1

\* C4 witness: two sessions were opened and abandoned after connection
\* failures, and the third attempt is about to launch with none open
C4_Witness ==
    /\ pc = "launch"
    /\ proxy_attempt = 2
    /\ launch_log[1].opened
    /\ launch_log[2].opened
    /\ open_sessions = 0

\* C6: when every target has been processed and no appointment was
\* collected, the run returns a failure result of kind DataExtractionError
\* whose metrics report zero appointments found.
C6_EmptyAggregateFails ==
    [][ (pc = "finish" /\ appointments = << >>) =>
            /\ pc' = "done"
            /\ result' # None
            /\ ~result'.success
            /\ result'.error_type = "DataExtractionError"
            /\ result'.metrics.appointments_found = 0 ]_vars

\* C6 witness: a run without any failing call that collected nothing
C6_Witness ==
    /\ pc = "done"
    /\ result # None
    /\ ~result.success
    /\ result.error = "No appointments collected for any doctor"
    /\ result.metrics.errors = 0
    /\ result.metrics.retries = 0
    /\ result.metrics.page_loads = Len(TARGET_DOCTORS)

\* C7: a successful run reports "primary" when it succeeded on proxy attempt
\* 0 and "backup_k" when it succeeded on attempt k > 0.
C7_ProxyUsedNamesTheAttempt ==
    (pc = "done" /\ result # None /\ result.success) =>
        result.proxy_used =
            CASE proxy_attempt = 0 -> "primary"
              [] proxy_attempt = 1 -> "backup_1"
              [] proxy_attempt = 2 -> "backup_2"
              [] proxy_attempt = 3 -> "backup_3"
              [] OTHER -> "backup_n"

\* C7 witness: one backup configured, the primary attempt failed to load
\* the page, the run succeeded under the backup
C7_Witness ==
    /\ pc = "done"
    /\ result # None
    /\ result.success
    /\ PROXY_BACKUP_LIST = << GoodBackup >>
    /\ launch_log[1].opened
    /\ result.proxy_used = "backup_1"

\* C8: when the retry executor returns after k failures, the operation was
\* invoked k+1 times, its last invocation succeeded, and the executor slept
\* k times, the j-th time (j = 0..k-1) for baseDelay * 2^j.
C8_RetryThenSuccess ==
    pc = "returned" =>
        /\ r_attempt < MAX_RETRIES
        /\ r_calls = r_attempt + 1
        /\ last_call # None
        /\ last_call.ok
        /\ Len(r_sleeps) = r_attempt
        /\ \A j \in 0..(r_attempt - 1) : r_sleeps[j + 1] = 5 * (2 ^ j)

\* C8 witness: two failures, then success
C8_Witness ==
    /\ pc = "returned"
    /\ r_attempt = 2
    /\ r_calls = 3
    /\ r_sleeps = << 5, 10 >>

\* C9: when every attempt failed, the operation was invoked maxAttempts
\* times, the executor slept maxAttempts - 1 times, never before the first
\* invocation, and it raises the failure of the last invocation itself.
C9_RetryExhaustion ==
    /\ (pc = "retry" /\ r_calls = 0) => r_sleeps = << >>
    /\ Exhausted =>
        /\ r_calls = MAX_RETRIES
        /\ Len(r_sleeps) = MAX_RETRIES - 1
        /\ last_call # None
        /\ ~last_call.ok
        /\ raised_by_retry = last_call.exc

\* C9 witness: three attempts of the target selection failed
C9_Witness ==
    /\ Exhausted
    /\ r_func = "select"
    /\ MAX_RETRIES = 3
    /\ r_calls = 3
    /\ r_sleeps = << 5, 10 >>

\* C10: with proxying disabled the run has one proxy attempt and every
\* launch gets no proxy; with proxying enabled and N backups it has 1 + N
\* attempts, and attempt 0 gets the primary endpoint.
C10_ProxyAttempts ==
    pc # "start" =>
        /\ Len(launch_log) <= max_proxy_attempts
        /\ ~PROXY_ENABLED =>
            /\ max_proxy_attempts = 1
            /\ \A k \in 1..Len(launch_log) : launch_log[k].proxy = None
            /\ pc = "done" => Len(launch_log) = 1
        /\ PROXY_ENABLED =>
            /\ max_proxy_attempts = 1 + Len(PROXY_BACKUP_LIST)
            /\ Len(launch_log) >= 1 =>
                launch_log[1].proxy =
                    [server |-> "http://68.225.23.120:13884",
                     username |-> "rockin12345678",
                     password |-> "Varun123456789"]

\* C10 witness: proxying disabled with two backups configured; the only
\* attempt failed to load the page and the run ended
C10_Witness ==
    /\ ~PROXY_ENABLED
    /\ Len(PROXY_BACKUP_LIST) = 2
    /\ pc = "done"
    /\ result # None
    /\ ~result.success
    /\ result.error_type = "PageLoadError"
    /\ Len(launch_log) = 1

\* C5: at most one thread executes scraper.run() at a time, under every
\* interleaving of the request handlers and the background threads.
C5_AtMostOneRunExecutes == Cardinality(running_threads) <= 1

(***************************************************************************)
(* ProxySpec: the runs of run() over backup lists of every shape, each     *)
(* call of the retry executor making one attempt.                          *)
(***************************************************************************)
\* a backup entry with four fields, one of them empty
EmptyFieldBackup == << "10.0.0.4", ":", "8080", ":", ":", "pass4" >>

ProxyBackupChoices == BackupChoices \cup { EmptyFieldBackup }

\* the class body ran with ZOCDOC_MAX_RETRIES = 1 (line 60) and a backup
\* list of the environment (line 48) that names no endpoint twice
ProxySpecInit ==
    /\ PROXY_ENABLED \in BOOLEAN
    /\ PROXY_BACKUP_LIST \in
        { q \in SeqsUpTo(ProxyBackupChoices, MaxBackups) :
            \A i, j \in 1..Len(q) : q[i] = q[j] => i = j }
    /\ MAX_RETRIES = 1
    /\ ScraperInit
    /\ AppInit

ProxySpec == ProxySpecInit /\ [][Next]_vars

\* the endpoint a backup entry of the model stands for, the primary endpoint
\* for an entry that does not have four fields
ExpectedEndpoint(entry) ==
    CASE entry = GoodBackup ->
            [server |-> "http://10.0.0.1:8080", username |-> "user1",
             password |-> "pass1"]
      [] entry = EmptyFieldBackup ->
            [server |-> "http://10.0.0.4:8080", username |-> "",
             password |-> "pass4"]
      [] OTHER ->
            [server |-> "http://68.225.23.120:13884",
             username |-> "rockin12345678", password |-> "Varun123456789"]

\* C11: with proxying enabled, attempt k > 0 is launched with the endpoint
\* parsed from backups[k-1] when that entry has exactly four fields, and with
\* the primary endpoint when it has not.
C11_BackupEndpoints ==
    PROXY_ENABLED =>
        \A n \in 2..Len(launch_log) :
            /\ launch_log[n].attempt = n - 1
            /\ launch_log[n].proxy = ExpectedEndpoint(PROXY_BACKUP_LIST[n - 1])

\* C11 witness: attempt 1 fell back to the primary endpoint for an entry of
\* five fields, attempt 2 used the endpoint of a well-formed entry
C11_Witness ==
    /\ PROXY_ENABLED
    /\ PROXY_BACKUP_LIST = << LongBackup, GoodBackup >>
    /\ Len(launch_log) = 3
    /\ launch_log[2].proxy.server = "http://68.225.23.120:13884"
    /\ launch_log[3].proxy.server = "http://10.0.0.1:8080"

(***************************************************************************)
(* ModalSpec: one iteration of the trigger loop of run() (lines 781-787),  *)
(* that is one call of _process_modal, over what the page may do during    *)
(* the call.                                                               *)
(***************************************************************************)
MaxBatch == 2

Slot1100 == Timeslot(<< "11:00 am" >>, Jan26)

Jan27 == Wrapper(Title(<< "Tue, Jan 27" >>))

Slot930Jan27 == Timeslot(<< "9:30 am" >>, Jan27)

BatchSlots == { Slot930, Slot1000, Slot1100, Slot930Jan27 }

\* the class body ran with the defaults of the environment (lines 41-61)
DefaultConfig ==
    /\ PROXY_ENABLED = TRUE
    /\ PROXY_BACKUP_LIST = << >>
    /\ MAX_RETRIES = 3

\* every combination of failing page calls, for a page with one timeslot in
\* the primary container, in the modal-content container, outside both, and
\* for a page without container and timeslot
ModalFailureInputs ==
    { ModalInput(click, wait, content, more_visible, more_click, content2,
                 close_visible, close_click, escape, escape2) :
        click \in { Yes, Boom }, wait \in { Yes, Boom },
        content \in { InModal(<< Slot930 >>),
                      Returns(PageDoc(Absent, Present(<< Slot930 >>), << >>, TRUE)),
                      Returns(PageDoc(Absent, Absent, << Slot930 >>, TRUE)),
                      Returns(PageDoc(Absent, Absent, << >>, FALSE)),
                      Boom },
        more_visible \in { Yes, No, Boom }, more_click \in { Yes, Boom },
        content2 \in { InModal(<< Slot930, Slot1000 >>), Boom },
        close_visible \in { Yes, No, Boom }, close_click \in { Yes, Boom },
        escape \in { Yes, Boom }, escape2 \in { Yes, Boom } }

\* every initial batch and every batch behind "show more", no call failing
ModalBatchInputs ==
    { ModalInput(Yes, Yes, InModal(first), more_visible, Yes, InModal(second),
                 Yes, Yes, Yes, Yes) :
        first \in SeqsUpTo(BatchSlots, MaxBatch),
        more_visible \in { Yes, No },
        second \in SeqsUpTo(BatchSlots, MaxBatch) }

\* every placing of timeslots in the primary container, in the modal-content
\* container and outside both, with and without the text of the marker in
\* the html, no call failing
ModalContainerInputs ==
    LET docs == { PageDoc(primary, alt, loose, marker) :
                    primary \in { Absent, Present(<< >>), Present(<< Slot930 >>) },
                    alt \in { Absent, Present(<< Slot1000 >>) },
                    loose \in { << >>, << Slot1100 >> },
                    marker \in BOOLEAN }
    IN  { ModalInput(Yes, Yes, Returns(doc), No, Yes, InModal(<< >>), Yes, Yes, Yes, Yes) :
            doc \in docs }

ModalUnitInputs == ModalFailureInputs \cup ModalBatchInputs \cup ModalContainerInputs

\* run() is inside the trigger loop of a doctor, nothing collected so far
ModalSpecInit ==
    /\ DefaultConfig
    /\ ScraperFields
    /\ AppInit
    /\ appointments = << >>
    /\ doctor_index \in 0..(Len(TARGET_DOCTORS) - 1)
    /\ current_doctor = TARGET_DOCTORS[doctor_index + 1]
    /\ pc = "modal"
    /\ open_sessions = 1
    /\ button_count \in 1..MaxButtons
    /\ idx \in 0..(button_count - 1)
    /\ unit_input \in ModalUnitInputs

\* lines 781-787: the trigger at idx is processed while the page behaves as
\* unit_input says; pc is "called" when it was the last trigger
process_trigger ==
    /\ pc = "modal"
    /\ last_call = None
    /\ LET out == process_modal(unit_input, current_doctor)
       IN  /\ last_call' = out
           /\ appointments' = appointments \o out.appointments
           /\ metrics' = [metrics EXCEPT !.errors = @ + out.errors]
    /\ IF idx + 1 < button_count
       THEN idx' = idx + 1 /\ pc' = pc
       ELSE idx' = idx /\ pc' = "called"
    /\ UNCHANGED << configVars, start_time, current_doctor,
                    max_proxy_attempts, proxy_attempt, use_backup,
                    backup_index, proxy, doctor_index, button_count, result,
                    escaped, open_sessions, launch_log, retryVars, faults,
                    appVars, unitVars >>

ModalNext == process_trigger

ModalSpec == ModalSpecInit /\ [][ModalNext]_vars

\* the page has neither container nor any timeslot marker
NoContainer(doc) ==
    /\ ~doc.primary.present
    /\ ~doc.alt.present
    /\ ~doc.marker

\* the close control fails and the Escape key pressed by the handler of that
\* failure fails as well
CloseFallbackFails(inp) ==
    /\ inp.escape2.raises
    /\ \/ inp.close_visible.raises
       \/ ~inp.close_visible.raises /\ inp.close_visible.value /\ inp.close_click.raises
       \/ ~inp.close_visible.raises /\ ~inp.close_visible.value /\ inp.escape.raises

\* an exception reaches the handler at the boundary of _process_modal
ReachesBoundary(inp) ==
    \/ inp.click.raises
    \/ inp.content.raises
    \/ NoContainer(inp.content.value)
    \/ CloseFallbackFails(inp)

\* some call made on the page during _process_modal raises
SomeCallRaises(inp) ==
    \/ inp.click.raises
    \/ ~inp.click.raises /\ inp.wait.raises
    \/ ReachesBoundary(inp)
    \/ ~inp.click.raises /\ ~inp.content.raises /\ ~NoContainer(inp.content.value)
        /\ \/ inp.more_visible.raises
           \/ ~inp.more_visible.raises /\ inp.more_visible.value
                /\ (inp.more_click.raises \/ inp.content2.raises)
           \/ inp.close_visible.raises
           \/ ~inp.close_visible.raises /\ inp.close_visible.value /\ inp.close_click.raises
           \/ ~inp.close_visible.raises /\ ~inp.close_visible.value /\ inp.escape.raises

\* C12 (amended): _process_modal never raises and the run goes on with the
\* next trigger; an exception that reaches its boundary handler (trigger
\* click, page content, container not found, close control and its Escape
\* fallback both failing) adds one to metrics['errors'] and gives an empty
\* list; an exception while waiting, paginating, or of the close control
\* alone is absorbed where it occurs: no error is counted and the initial
\* batch is returned.
C12_ProcessModalNeverRaises ==
    last_call # None =>
        /\ escaped = None
        /\ result = None
        /\ open_sessions = 1
        /\ pc \in { "modal", "called" }
        /\ pc = "modal" => idx < button_count
        /\ IF ReachesBoundary(unit_input)
           THEN appointments = << >> /\ metrics.errors = 1
           ELSE /\ metrics.errors = 0
                /\ unit_input \in ModalFailureInputs =>
                    /\ Len(appointments) >= 1
                    /\ appointments[1].time = "9:30 am"

\* C12 witness: the wait timed out, "show more" could not be clicked and the
\* close control failed, yet the call returned its appointment uncounted and
\* the loop moved to the next trigger
C12_Witness ==
    /\ last_call # None
    /\ unit_input.wait.raises
    /\ ~unit_input.more_visible.raises
    /\ unit_input.more_visible.value
    /\ unit_input.more_click.raises
    /\ ~unit_input.close_visible.raises
    /\ unit_input.close_visible.value
    /\ unit_input.close_click.raises
    /\ ~unit_input.escape2.raises
    /\ Len(appointments) = 1
    /\ metrics.errors = 0
    /\ pc = "modal"
    /\ idx = 1

\* C12 as stated: whatever exception occurs during the call, one error is
\* counted and the list is empty.
C12_AsStated ==
    (last_call # None /\ SomeCallRaises(unit_input)) =>
        (appointments = << >> /\ metrics.errors = 1)

    /\ metrics.errors = 0

(***************************************************************************)
(* SaveSpec: one call of _save_results over appointment lists.             *)
(***************************************************************************)
MaxRows == 3

\* the appointments of the lists saved: both doctors, three (date, time) keys
SaveAppointments ==
    { [doctor |-> TARGET_DOCTORS[d], date |-> k[1], time |-> k[2],
       datetime |-> k[1] \o " " \o k[2]] :
        d \in 1..Len(TARGET_DOCTORS),
        k \in { << "Mon, Jan 26", "9:30 am" >>, << "Mon, Jan 26", "10:00 am" >>,
                << "Tue, Jan 27", "9:30 am" >> } }

SaveSpecInit ==
    /\ DefaultConfig
    /\ ScraperFields
    /\ AppInit
    /\ appointments \in SeqsUpTo(SaveAppointments, MaxRows)
    /\ doctor_index = Len(TARGET_DOCTORS) - 1
    /\ current_doctor = TARGET_DOCTORS[Len(TARGET_DOCTORS)]
    /\ pc = "save"
    /\ open_sessions = 1
    /\ button_count = 0
    /\ idx = 0
    /\ unit_input = None

\* line 803: _save_results() is called; writing the files works or fails
save_results_call ==
    /\ pc = "save"
    /\ \E write \in WriteOutcomes :
        /\ last_call' = [ok |-> save_results(write) = None, exc |-> save_results(write)]
        /\ exports' = saved_exports(write)
    /\ pc' = "called"
    /\ UNCHANGED << configVars, start_time, appointments, current_doctor,
                    metrics, max_proxy_attempts, proxy_attempt, use_backup,
                    backup_index, proxy, doctor_index, button_count, idx,
                    result, escaped, open_sessions, launch_log, retryVars,
                    faults, appVars, unit_input >>

SaveNext == save_results_call

SaveSpec == SaveSpecInit /\ [][SaveNext]_vars

\* the positions of the rows of rows that are the first with their
\* (date, time)
FirstOfKey(rows) ==
    { i \in 1..Len(rows) :
        \A j \in 1..(i - 1) :
            << rows[j].date, rows[j].time >> # << rows[i].date, rows[i].time >> }

\* C14: the cleaned file holds, in their order in the raw file, exactly the
\* rows that are the first of the raw file with their (date, time), whatever
\* their doctor; the raw file holds every appointment. The cleaned file is
\* written by every call that returns; a call whose second write fails leaves
\* the raw file alone.
C14_CleanedKeepsFirstSeen ==
    exports # None =>
        /\ exports.raw = appointments
        /\ (pc = "called" /\ last_call.ok) => exports.cleaned # "not written"
        /\ exports.cleaned # "not written" =>
            /\ Len(exports.cleaned) = Cardinality(FirstOfKey(exports.raw))
            /\ \A i \in FirstOfKey(exports.raw) :
                exports.cleaned[Cardinality({ j \in FirstOfKey(exports.raw) : j <= i })]
                    = exports.raw[i]

\* C14 witness: the second of three rows repeats the key of the first for
\* the other doctor and is dropped; the first and the third are kept in order
C14_Witness ==
    /\ exports # None
    /\ Len(exports.raw) = 3
    /\ exports.raw[1].doctor # exports.raw[2].doctor
    /\ exports.raw[1].date = exports.raw[2].date
    /\ exports.raw[1].time = exports.raw[2].time
    /\ exports.raw[3].time # exports.raw[1].time
    /\ exports.cleaned = << exports.raw[1], exports.raw[3] >>

\* C15: a successful run reports the length of the appointment list as
\* appointments_count and the number of distinct (date, time) pairs of the
\* list, whatever their doctor, as unique_count, and
\* 1 <= unique_count <= appointments_count.
C15_CountsOfASuccessfulRun ==
    (pc = "done" /\ result # None /\ result.success) =>
        /\ result.appointments_count = Len(appointments)
        /\ result.unique_count =
            Cardinality({ << appointments[i].date, appointments[i].time >> :
                            i \in 1..Len(appointments) })
        /\ 1 <= result.unique_count
        /\ result.unique_count <= result.appointments_count

\* C15 witness: both doctors offer the same date and time: two appointments,
\* one unique
C15_Witness ==
    /\ pc = "done"
    /\ result # None
    /\ result.success
    /\ result.appointments_count = 2
    /\ result.unique_count = 1
    /\ appointments[1].doctor # appointments[2].doctor

\* the (date, time) a timeslot of BatchSlots shows to a reader of the page
SlotKey(timeslot) ==
    CASE timeslot = Slot930 -> << "Mon, Jan 26", "9:30 am" >>
      [] timeslot = Slot1000 -> << "Mon, Jan 26", "10:00 am" >>
      [] timeslot = Slot1100 -> << "Mon, Jan 26", "11:00 am" >>
      [] timeslot = Slot930Jan27 -> << "Tue, Jan 27", "9:30 am" >>

SlotKeys(timeslots) == [i \in 1..Len(timeslots) |-> SlotKey(timeslots[i])]

\* the "show more" block of lines 581-603 runs to its end
Paginates(inp) ==
    /\ ~inp.click.raises
    /\ ~inp.content.raises
    /\ inp.content.value.primary.present
    /\ ~inp.more_visible.raises
    /\ inp.more_visible.value
    /\ ~inp.more_click.raises
    /\ ~inp.content2.raises
    /\ inp.content2.value.primary.present

\* the batches of a call whose page shows only timeslots of BatchSlots
FirstBatch == unit_input.content.value.primary.timeslots

SecondBatch == unit_input.content2.value.primary.timeslots

\* C16: when "show more" is visible and the second batch is read, the list
\* returned is the initial batch in its order followed by exactly the entries
\* of the second batch, in their order, whose (date, time) does not occur in
\* the initial batch.
C16_ShowMoreMerge ==
    (last_call # None /\ unit_input \in ModalBatchInputs /\ Paginates(unit_input)) =>
        LET first == SlotKeys(FirstBatch)
            second == SlotKeys(SecondBatch)
            NotInFirst(k) == \A i \in 1..Len(first) : first[i] # k
        IN  /\ [i \in 1..Len(appointments) |->
                    << appointments[i].date, appointments[i].time >>]
                = first \o SelectSeq(second, NotInFirst)
            /\ \A i \in 1..Len(appointments) :
                    appointments[i].doctor = current_doctor

\* C16 witness: initial times 9:30 am and 10:00 am, revealed times 9:30 am
\* and 11:00 am: 9:30 am, 10:00 am, 11:00 am are returned
C16_Witness ==
    /\ last_call # None
    /\ unit_input \in ModalBatchInputs
    /\ Paginates(unit_input)
    /\ FirstBatch = << Slot930, Slot1000 >>
    /\ SecondBatch = << Slot930, Slot1100 >>
    /\ Len(appointments) = 3
    /\ appointments[1].time = "9:30 am"
    /\ appointments[2].time = "10:00 am"
    /\ appointments[3].time = "11:00 am"

\* C17: the list returned for one trigger never holds two appointments with
\* the same (date, time).
C17_NoDuplicateKeysInModal ==
    last_call # None =>
        \A i, j \in 1..Len(appointments) :
            (appointments[i].date = appointments[j].date
                /\ appointments[i].time = appointments[j].time) => i = j

(***************************************************************************)
(* ExtractSpec: one call of _extract_appointments_from_modal over the      *)
(* timeslot elements of a modal.                                           *)
(***************************************************************************)
\* texts of a timeslot element: plain, padded, empty, whitespace only,
\* padded with carriage return, tab and form feed, a no-break space only
\* (&nbsp;), padded with no-break space, vertical tab, next line and U+001C
ExtractTexts ==
    { << "9:30 am" >>, << " ", "10:00 am", "\n" >>, << >>, << " ", "\n" >>,
      << "\r\t11:00 am", "\f" >>, << " " >>, << " 11:30 am", "" >> }

\* no date wrapper; a wrapper without title; with a padded title; with an
\* empty title; with a title padded with carriage return and form feed
ExtractWrappers ==
    { NoWrapper, Wrapper(NoTitle), Jan26, Wrapper(Title(<< >>)),
      Wrapper(Title(<< "\r", "Tue, Jan 27", "\f" >>)) }

ExtractSlots == { Timeslot(t, w) : t \in ExtractTexts, w \in ExtractWrappers }

ExtractSpecInit ==
    /\ DefaultConfig
    /\ ScraperFields
    /\ AppInit
    /\ appointments = << >>
    /\ doctor_index \in 0..(Len(TARGET_DOCTORS) - 1)
    /\ current_doctor = TARGET_DOCTORS[doctor_index + 1]
    /\ pc = "extract"
    /\ open_sessions = 1
    /\ button_count = 1
    /\ idx = 0
    /\ unit_input \in { [timeslots |-> q] : q \in SeqsUpTo(ExtractSlots, MaxBatch) }

\* line 578: the timeslot elements of the container are extracted; the list
\* returned is kept in appointments
extract_call ==
    /\ pc = "extract"
    /\ appointments' =
        extract_appointments_from_modal(unit_input.timeslots, current_doctor)
    /\ last_call' = [ok |-> TRUE, exc |-> None]
    /\ pc' = "called"
    /\ UNCHANGED << configVars, start_time, current_doctor, metrics,
                    max_proxy_attempts, proxy_attempt, use_backup,
                    backup_index, proxy, doctor_index, button_count, idx,
                    result, escaped, open_sessions, launch_log, retryVars,
                    faults, appVars, unitVars >>

ExtractNext == extract_call

ExtractSpec == ExtractSpecInit /\ [][ExtractNext]_vars

\* C18: extraction emits no appointment whose time label is empty.
C18_NoEmptyTimeLabel ==
    pc = "called" =>
        \A i \in 1..Len(appointments) : appointments[i].time # ""

\* the date label a reader of the page takes from a wrapper of ExtractWrappers
ExpectedDate(wrapper) ==
    CASE wrapper = Jan26 -> "Mon, Jan 26"
      [] wrapper = Wrapper(Title(<< >>)) -> ""
      [] wrapper = Wrapper(Title(<< "\r", "Tue, Jan 27", "\f" >>)) -> "Tue, Jan 27"
      [] OTHER -> "Unknown Date"

\* C19: the date label of an emitted appointment is the trimmed text of the
\* date title of the entry's date wrapper, and "Unknown Date" when the entry
\* has no date wrapper or the wrapper has no date title.
C19_DateLabel ==
    pc = "called" =>
        /\ Len(appointments) = Len(unit_input.timeslots)
        /\ \A i \in 1..Len(appointments) :
            appointments[i].date = ExpectedDate(unit_input.timeslots[i].wrapper)

\* C19 witness: an entry without wrapper, then an entry under the wrapper
\* titled " Mon, Jan 26 "
C19_Witness ==
    /\ pc = "called"
    /\ Len(appointments) = 2
    /\ ~unit_input.timeslots[1].wrapper.present
    /\ unit_input.timeslots[2].wrapper = Jan26
    /\ appointments[1].date = "Unknown Date"
    /\ appointments[2].date = "Mon, Jan 26"
    /\ appointments[2].time = "10:00 am"

\* C20: in every state of a run every appointment collected has
\* datetime = date, one space, time, and every appointment a step adds
\* carries the doctor that is current during the step.
C20_DatetimeAndDoctor ==
    /\ [](\A i \in 1..Len(appointments) :
            /\ appointments[i].datetime
                = appointments[i].date \o " " \o appointments[i].time
            /\ \E d \in 1..Len(TARGET_DOCTORS) :
                appointments[i].doctor = TARGET_DOCTORS[d])
    /\ [][ /\ Len(appointments') >= Len(appointments)
           /\ SubSeq(appointments', 1, Len(appointments)) = appointments
           /\ \A i \in (Len(appointments) + 1)..Len(appointments') :
                /\ pc = "modal"
                /\ appointments'[i].doctor = current_doctor
                /\ current_doctor = TARGET_DOCTORS[doctor_index + 1] ]_vars

\* C20 witness: the second doctor's appointment follows the first doctor's
C20_Witness ==
    /\ Len(appointments) = 2
    /\ appointments[1].doctor = TARGET_DOCTORS[1]
    /\ appointments[2].doctor = TARGET_DOCTORS[2]
    /\ appointments[1].datetime = "Mon, Jan 26 9:30 am"
    /\ appointments[2].datetime = "Mon, Jan 26 9:30 am"
    /\ current_doctor = TARGET_DOCTORS[2]

\* C21: the aggregate appointment sequence of a run is append-only and in
\* discovery order: every step leaves the previous contents as a prefix, only
\* the processing of a trigger appends, its block belongs to the doctor being
\* processed, triggers are processed in index order and doctors in the
\* configured order, and the raw export of a successful run is the whole
\* sequence, duplicates included.
C21_AppendOnlyDiscoveryOrder ==
    /\ []((pc = "done" /\ result # None /\ result.success) =>
            /\ exports # None
            /\ exports.raw = appointments
            /\ Len(exports.raw) = result.appointments_count)
    /\ [][ /\ Len(appointments') >= Len(appointments)
           /\ SubSeq(appointments', 1, Len(appointments)) = appointments
           /\ appointments' # appointments =>
                /\ pc = "modal"
                /\ idx < button_count
                /\ \A i \in (Len(appointments) + 1)..Len(appointments') :
                    appointments'[i].doctor = TARGET_DOCTORS[doctor_index + 1]
           /\ pc = "modal" =>
                \/ pc' = "modal" /\ doctor_index' = doctor_index /\ idx' = idx + 1
                \/ /\ idx + 1 = button_count
                   /\ pc' = "retry"
                   /\ r_func' = "load"
                   /\ doctor_index' = doctor_index + 1
                \/ /\ idx + 1 = button_count
                   /\ pc' = "finish"
                   /\ doctor_index + 1 = Len(TARGET_DOCTORS) ]_vars

\* C21 witness: a successful run whose two triggers gave the same timeslot;
\* the raw export holds both
C21_Witness ==
    /\ pc = "done"
    /\ result # None
    /\ result.success
    /\ exports.raw = appointments
    /\ Len(exports.raw) = 2
    /\ exports.raw[1] = exports.raw[2]
    /\ Len(exports.cleaned) = 1

\* C22: every attempt of the retry executor adds to the retries counter
\* exactly the number of sleeps it performs, so that a call of the executor
\* raises the counter by the number of its sleeps.
C22_RetriesCountSleeps ==
    [][ (pc = "retry" /\ r_attempt < MAX_RETRIES) =>
            metrics'.retries - metrics.retries = Len(r_sleeps') - Len(r_sleeps) ]_vars

(***************************************************************************)
(* LoadSpec: one call of _load_page on a page of AllLoadInputs.            *)
(***************************************************************************)
LoadSpecInit ==
    /\ DefaultConfig
    /\ ScraperFields
    /\ AppInit
    /\ appointments = << >>
    /\ doctor_index \in 0..(Len(TARGET_DOCTORS) - 1)
    /\ current_doctor = TARGET_DOCTORS[doctor_index + 1]
    /\ pc = "load"
    /\ open_sessions = 1
    /\ button_count = 0
    /\ idx = 0
    /\ unit_input \in AllLoadInputs

\* lines 292-332: _load_page is called once; its outcome is kept in last_call
load_call ==
    /\ pc = "load"
    /\ last_call' = load_page(unit_input)
    /\ metrics' = [metrics EXCEPT !.page_loads = @ + load_page(unit_input).page_loads]
    /\ pc' = "called"
    /\ UNCHANGED << configVars, start_time, appointments, current_doctor,
                    max_proxy_attempts, proxy_attempt, use_backup,
                    backup_index, proxy, doctor_index, button_count, idx,
                    result, escaped, open_sessions, launch_log, retryVars,
                    faults, appVars, unitVars >>

LoadNext == load_call

LoadSpec == LoadSpecInit /\ [][LoadNext]_vars

\* the page read shows the block signature: of the pages of AllLoadInputs
\* the two block pages hold both "403" and "restricted" in some capitalisation
ShowsBlock(read) ==
    /\ ~read.raises
    /\ read.value \in { << "<html>", "403", "Restricted" >>,
                        << "<html>", "403", "rEsTrIcTeD" >> }

\* the title read shows the site signature
ShowsSite(read) == ~read.raises /\ read.value = SiteTitle

\* the initial reads of the call all returned
InitialReads(inp) == ~inp.goto.raises /\ ~inp.title.raises /\ ~inp.html.raises

\* the block signature is absent after the reload: the reload returned and
\* the recheck, which reads the content for "403" and, if it is there, again
\* for "restricted", met a read without the signature before any read failed
AbsentAfterReload(inp) ==
    /\ ~inp.reload.raises
    /\ ~inp.html2.raises
    /\ \/ inp.html2.value = CleanHtml
       \/ ~inp.html3.raises /\ inp.html3.value = CleanHtml

\* C23: _load_page returns normally exactly when the title holds the site
\* signature and the block signature is absent, at first or after the reload;
\* every other outcome is a PageLoadError, which the orchestrator treats as a
\* connection failure.
C23_LoadOutcome ==
    pc = "called" =>
        /\ last_call.ok <=>
            /\ InitialReads(unit_input)
            /\ ShowsSite(unit_input.title)
            /\ \/ ~ShowsBlock(unit_input.html)
               \/ AbsentAfterReload(unit_input)
        /\ ~last_call.ok =>
            /\ last_call.exc.type = "PageLoadError"
            /\ is_connection_error(last_call.exc)

\* C23 witness: reload() times out on a blocked page and the call fails
C23_Witness ==
    /\ pc = "called"
    /\ ShowsSite(unit_input.title)
    /\ ShowsBlock(unit_input.html)
    /\ unit_input.reload.raises
    /\ ~last_call.ok
    /\ last_call.exc.type = "PageLoadError"
    /\ last_call.exc.msg = "Failed to load page: reload: timeout"

\* C24: a call that detects the block signature calls reload() once and, when
\* reload() returns, rechecks once: it returns if the signature is gone and
\* fails if it persists; a call that detects no block signature never reloads.
C24_OneReloadAndRecheck ==
    pc = "called" =>
        LET detected == /\ InitialReads(unit_input)
                        /\ ShowsSite(unit_input.title)
                        /\ ShowsBlock(unit_input.html)
        IN  /\ last_call.reloads = IF detected THEN 1 ELSE 0
            /\ last_call.rechecks =
                IF detected /\ ~unit_input.reload.raises THEN 1 ELSE 0
            /\ (detected /\ ~unit_input.reload.raises) =>
                /\ (unit_input.html2 = Returns(CleanHtml)) => last_call.ok
                /\ (ShowsBlock(unit_input.html2) /\ ShowsBlock(unit_input.html3)) =>
                    /\ ~last_call.ok
                    /\ last_call.exc.msg =
                        "Failed to load page: Page still restricted after reload"

\* C24 witness: the block is gone after the one reload
C24_Witness ==
    /\ pc = "called"
    /\ ShowsBlock(unit_input.html)
    /\ unit_input.html2 = Returns(CleanHtml)
    /\ last_call.ok
    /\ last_call.reloads = 1
    /\ last_call.rechecks = 1
    /\ metrics.page_loads = 1

(***************************************************************************)
(* SelectSpec: one call of _select_doctor on a page with up to MaxCands    *)
(* candidate controls.                                                     *)
(***************************************************************************)
MaxCands == 3

\* The candidate controls of a page, for one doctor: the controls of the run
\* model and controls whose handling raises or whose option is found by the
\* second or third strategy.
SelectControls(doctor) ==
    { ActiveControl(doctor), OtherControl, AllControl, AllControlForced,
      AllControlNoOption,
      \* inner_text() raises
      Candidate(Boom, Yes, Yes, No, FALSE, No, Yes, Yes, Yes, Yes),
      \* the click that opens the control raises
      Candidate(Returns(AllLabel), Boom, Yes, No, FALSE, No, Yes, Yes, Yes, Yes),
      \* a hidden attribute-tagged option and a visible free-text element
      Candidate(Returns(AllLabel), Yes, No, Yes, FALSE, Yes, Yes, Yes, Yes, Yes),
      \* a visible attribute-tagged option
      Candidate(Returns(AllLabel), Yes, No, Yes, TRUE, No, Yes, Yes, Yes, Yes),
      \* the first lookup raises, the free-text element is visible
      Candidate(Returns(AllLabel), Yes, Boom, No, FALSE, Yes, Yes, Yes, Yes, Yes),
      \* both clicks on the option raise
      Candidate(Returns(AllLabel), Yes, Yes, No, FALSE, No, Yes, Yes, Boom, Boom),
      \* the option of the first lookup is hidden when line 387 asks again
      Candidate(Returns(AllLabel), Yes, Yes, No, FALSE, No, No, Yes, Yes, Yes),
      \* the label of the "all providers" control in another capitalisation
      Candidate(Returns(<< "Provider Availability" >>), Yes, Yes, No, FALSE, No,
                Yes, Yes, Yes, Yes) }

SelectSpecInit ==
    /\ DefaultConfig
    /\ ScraperFields
    /\ AppInit
    /\ appointments = << >>
    /\ doctor_index \in 0..(Len(TARGET_DOCTORS) - 1)
    /\ current_doctor = TARGET_DOCTORS[doctor_index + 1]
    /\ pc = "select"
    /\ open_sessions = 1
    /\ button_count = 0
    /\ idx = 0
    /\ unit_input \in
        { [count |-> IF r THEN Raises("count: page closed") ELSE Returns(Len(q)),
           cands |-> q] :
            r \in BOOLEAN,
            q \in SeqsUpTo(SelectControls(DoctorTokens[doctor_index + 1]), MaxCands) }

\* lines 334-417: _select_doctor is called once for the current doctor; its
\* outcome is kept in last_call
select_call ==
    /\ pc = "select"
    /\ last_call' = select_doctor(unit_input.count, unit_input.cands,
                                  DoctorTokens[doctor_index + 1])
    /\ pc' = "called"
    /\ UNCHANGED << configVars, start_time, appointments, current_doctor,
                    metrics, max_proxy_attempts, proxy_attempt, use_backup,
                    backup_index, proxy, doctor_index, button_count, idx,
                    result, escaped, open_sessions, launch_log, retryVars,
                    faults, appVars, unitVars >>

SelectNext == select_call

SelectSpec == SelectSpecInit /\ [][SelectNext]_vars

\* the candidates of the call, once their enumeration returned
Scanned == IF unit_input.count.raises THEN << >> ELSE unit_input.cands

\* the label of the control names the current doctor
ShowsDoctor(c) ==
    /\ ~c.label.raises
    /\ c.label.value = << Split(DoctorTokens[doctor_index + 1], ",")[1], ", DDS" >>

\* the control is the "all providers" control
ShowsAll(c) ==
    /\ ~c.label.raises
    /\ c.label.value \in { << "All provider", " availability" >>,
                          << "Provider Availability" >> }

\* strategy k finds a match
Match(c, k) ==
    CASE k = 1 -> ~c.s1.raises /\ c.s1.value
      [] k = 2 -> ~c.s2.raises /\ c.s2.value
      [] k = 3 -> ~c.s3.raises /\ c.s3.value

\* strategy k finds a visible match
VisibleMatch(c, k) == Match(c, k) /\ (k = 2 => c.s2vis)

\* the scan surely goes past the control: its label cannot be read, it is
\* another control, or it is the "all providers" control and cannot be opened
\* or shows no match at all
Passes(c) ==
    \/ c.label.raises
    \/ c.label.value = << "Choose a ", "location" >>
    \/ ShowsAll(c) /\ (c.open.raises \/ \A k \in 1..3 : ~Match(c, k))

\* the controls the scan opens among the first n
OpenedUpTo(n) == { j \in 1..n : ShowsAll(Scanned[j]) /\ ~Scanned[j].open.raises }

\* C25: a candidate whose label already holds the short name of the doctor
\* ends the scan with success and nothing else is done: it is not opened, no
\* option is activated and no later candidate is inspected.
C25_AlreadyActive ==
    pc = "called" =>
        \A i \in 1..Len(Scanned) :
            (ShowsDoctor(Scanned[i]) /\ \A j \in 1..(i - 1) : Passes(Scanned[j])) =>
                /\ last_call.ok
                /\ last_call.at = i
                /\ last_call.how = "already"
                /\ last_call.strategy = 0
                /\ last_call.inspected = 1..i
                /\ last_call.opened = OpenedUpTo(i - 1)

\* C25 witness: the second of three candidates is already active; the first
\* was opened without a match, the third would have given an option
C25_Witness ==
    /\ pc = "called"
    /\ Len(Scanned) = 3
    /\ Scanned[1] = AllControlNoOption
    /\ ShowsDoctor(Scanned[2])
    /\ Scanned[3] = AllControl
    /\ last_call.ok
    /\ last_call.at = 2
    /\ last_call.opened = {1}
    /\ last_call.inspected = {1, 2}

\* C26: the option used for activation comes from the first strategy, in the
\* order 1, 2, 3, that yields a visible match; a strategy whose match is not
\* visible does not stop the chain.
C26_FirstVisibleStrategyWins ==
    (pc = "called" /\ Len(Scanned) >= 1) =>
        LET c == Scanned[1]
            ready == /\ ShowsAll(c)
                     /\ ~c.open.raises
                     /\ ~c.recheck.raises
                     /\ c.recheck.value
                     /\ ~c.scroll.raises
                     /\ ~c.click.raises
        IN  \A k \in 1..3 :
                (ready /\ VisibleMatch(c, k) /\ \A l \in 1..(k - 1) : ~VisibleMatch(c, l)) =>
                    /\ last_call.ok
                    /\ last_call.at = 1
                    /\ last_call.strategy = k

\* the option search of the control gives an option that can be activated:
\* the first strategy with a match, and its match is visible when it is
\* asked for before the activation
Usable(c) ==
    /\ ~c.open.raises
    /\ ~c.recheck.raises
    /\ \E k \in 1..3 :
        /\ Match(c, k)
        /\ \A l \in 1..(k - 1) : ~Match(c, l)
        /\ VisibleMatch(c, k)
        /\ k # 2 => c.recheck.value
    /\ ~c.scroll.raises

\* C27: on a found option the normal click is tried and, only if it raises,
\* the forced click once; after the activation the call has succeeded at this
\* candidate and no later candidate is inspected or opened.
C27_ActivationEndsTheScan ==
    pc = "called" =>
        /\ \A i \in 1..Len(Scanned) :
            LET c == Scanned[i]
            IN  (/\ ShowsAll(c)
                 /\ Usable(c)
                 /\ \A j \in 1..(i - 1) : Passes(Scanned[j])) =>
                    /\ ~c.click.raises =>
                        last_call.ok /\ last_call.at = i /\ last_call.how = "click"
                    /\ (c.click.raises /\ ~c.force.raises) =>
                        last_call.ok /\ last_call.at = i /\ last_call.how = "force"
                    /\ (c.click.raises /\ c.force.raises) =>
                        ~(last_call.ok /\ last_call.at = i)
        /\ (last_call.ok /\ last_call.how \in { "click", "force" }) =>
            /\ last_call.how = "force" <=> Scanned[last_call.at].click.raises
            /\ last_call.inspected = 1..last_call.at
            /\ last_call.opened = OpenedUpTo(last_call.at)

\* C27 witness: the normal click on the option of the second candidate
\* raises, the forced click works, and a third candidate is never inspected
C27_Witness ==
    /\ pc = "called"
    /\ Len(Scanned) = 3
    /\ Scanned[1] = OtherControl
    /\ Scanned[2] = AllControlForced
    /\ Scanned[3] = AllControl
    /\ last_call.ok
    /\ last_call.how = "force"
    /\ last_call.at = 2
    /\ last_call.inspected = {1, 2}
    /\ last_call.opened = {2}

\* the handling of the control ends the scan with success
Ends(c) ==
    \/ ShowsDoctor(c)
    \/ ShowsAll(c) /\ Usable(c) /\ (~c.click.raises \/ ~c.force.raises)

\* C28: once the candidates are enumerated, the call fails exactly when there
\* is no candidate or no candidate of the page ends the scan with success;
\* a candidate opened without a match or whose handling raises never ends the
\* call, which then succeeds at the first later candidate that can.
C28_ScanContinues ==
    (pc = "called" /\ ~unit_input.count.raises) =>
        /\ ~last_call.ok <=> \A i \in 1..Len(Scanned) : ~Ends(Scanned[i])
        /\ ~last_call.ok =>
            /\ last_call.exc.type = "DoctorSelectionError"
            /\ last_call.inspected = 1..Len(Scanned)
            /\ last_call.opened = OpenedUpTo(Len(Scanned))
        /\ last_call.ok =>
            /\ Ends(Scanned[last_call.at])
            /\ \A j \in 1..(last_call.at - 1) : ~Ends(Scanned[j])

\* C28 witness: the label of the first candidate cannot be read, the second
\* is opened without a match, and the third is selected
C28_Witness ==
    /\ pc = "called"
    /\ Len(Scanned) = 3
    /\ Scanned[1].label.raises
    /\ Scanned[2] = AllControlNoOption
    /\ Scanned[3] = AllControl
    /\ last_call.ok
    /\ last_call.at = 3
    /\ last_call.opened = {2, 3}

\* the timeslots a reader expects from a page of ModalContainerInputs: those
\* of the primary container if the page has one, else those of the
\* modal-content container if it has one, else every timeslot of the page
ExpectedTimeslots(doc) ==
    IF doc.primary.present THEN doc.primary.timeslots
    ELSE IF doc.alt.present THEN doc.alt.timeslots
    ELSE doc.loose

\* C29: the modal root is the primary container, else the modal-content
\* container, else the whole page when the timeslot marker occurs in the
\* html; "container not found" arises only when there is neither container
\* nor marker, and is absorbed at the boundary of the call: an empty list and
\* one error counted.
C29_ContainerFallback ==
    (last_call # None /\ unit_input \in ModalContainerInputs) =>
        LET doc == unit_input.content.value
        IN  IF ~doc.primary.present /\ ~doc.alt.present /\ ~doc.marker
            THEN /\ appointments = << >>
                 /\ metrics.errors = 1
                 /\ last_call.container = "none"
                 /\ escaped = None
            ELSE /\ metrics.errors = 0
                 /\ [i \in 1..Len(appointments) |->
                        << appointments[i].date, appointments[i].time >>]
                    = SlotKeys(ExpectedTimeslots(doc))

\* C29 witness: no primary container; the modal-content container holds the
\* 10:00 slot and the 11:00 slot is outside it
C29_Witness ==
    /\ last_call # None
    /\ unit_input \in ModalContainerInputs
    /\ ~unit_input.content.value.primary.present
    /\ unit_input.content.value.alt.present
    /\ unit_input.content.value.loose = << Slot1100 >>
    /\ last_call.container = "alt"
    /\ Len(appointments) = 1
    /\ appointments[1].time = "10:00 am"

\* C30: a failure while the modal is closed never changes what the call
\* returns: when the trigger was clicked and the page gave a container with
\* the 9:30 slot, that appointment is returned and no error is counted,
\* whatever the close control and the Escape key do.
C30_CloseNeverChangesTheResult ==
    (/\ last_call # None
     /\ unit_input \in ModalFailureInputs
     /\ ~unit_input.click.raises
     /\ ~unit_input.content.raises
     /\ ~NoContainer(unit_input.content.value)) =>
        /\ Len(appointments) >= 1
        /\ appointments[1].time = "9:30 am"
        /\ metrics.errors = 0

\* C31: none of the four counters of the metrics (page loads, retries,
\* errors, appointments found) ever decreases in a step of a run.
C31_MetricsNeverDecrease ==
    [][ /\ metrics'.page_loads >= metrics.page_loads
        /\ metrics'.retries >= metrics.retries
        /\ metrics'.errors >= metrics.errors
        /\ metrics'.appointments_found >= metrics.appointments_found ]_vars

\* C31 witness: a run that retried, failed over to the backup proxy and
\* succeeded there, with every kind of counter raised
C31_Witness ==
    /\ pc = "done"
    /\ result # None
    /\ result.success
    /\ proxy_attempt = 1
    /\ metrics.retries >= 2
    /\ metrics.page_loads >= 2
    /\ metrics.errors >= 1
    /\ metrics.appointments_found >= 1

\* C32: within a proxy attempt the targets are taken in the configured order
\* and, for each target, navigation comes first, selection begins only after
\* navigation for that target returned in the same session, the triggers are
\* counted and processed only after selection for that target returned, and
\* the triggers are processed in index order.
C32_StepOrder ==
    [][ /\ (r_func' = "load" /\ (r_func # "load" \/ pc # "retry")) =>
            /\ current_doctor' = TARGET_DOCTORS[doctor_index' + 1]
            /\ open_sessions' = 1
            /\ \/ pc = "launch" /\ doctor_index' = 0
               \/ /\ pc = "returned" /\ r_func = "select" /\ last_call.ok
                  /\ doctor_index' = doctor_index + 1
                  /\ proxy_attempt' = proxy_attempt
               \/ /\ pc = "modal" /\ idx = button_count - 1
                  /\ doctor_index' = doctor_index + 1
                  /\ proxy_attempt' = proxy_attempt
        /\ (r_func' = "select" /\ r_func # "select") =>
            /\ pc = "returned" /\ r_func = "load" /\ last_call.ok
            /\ doctor_index' = doctor_index
            /\ current_doctor' = current_doctor
            /\ proxy_attempt' = proxy_attempt
            /\ open_sessions' = open_sessions
        /\ (pc' = "modal" /\ pc # "modal") =>
            /\ pc = "returned" /\ r_func = "select" /\ last_call.ok
            /\ idx' = 0
            /\ button_count' >= 1
            /\ doctor_index' = doctor_index
            /\ proxy_attempt' = proxy_attempt
            /\ open_sessions' = open_sessions
        /\ (pc' = "modal" /\ pc = "modal") =>
            /\ idx' = idx + 1
            /\ idx' < button_count
            /\ button_count' = button_count
            /\ doctor_index' = doctor_index ]_vars

\* C32 witness: in the second session the second trigger of the second
\* target is about to be processed
C32_Witness ==
    /\ pc = "modal"
    /\ proxy_attempt = 1
    /\ doctor_index = 1
    /\ current_doctor = TARGET_DOCTORS[2]
    /\ idx = 1
    /\ open_sessions = 1

\* C33: when the target loop is about to start under a proxy, nothing
\* collected under an abandoned proxy attempt is in the aggregate, so that the
\* result of a successful run counts only the appointments of its own attempt.
C33_NothingCarriedOver == pc = "launch" => appointments = << >>

\* C34: the proxy tier a successful run reports names the endpoint its
\* session was launched with: "backup_k" means the endpoint parsed from the
\* k-th backup entry, and "primary" means the primary endpoint, so nothing is
\* reported for a session launched without proxy.
C34_ProxyUsedNamesTheEndpoint ==
    (pc = "done" /\ result # None /\ result.success) =>
        /\ result.proxy_used = "primary" =>
            proxy = [server |-> "http://68.225.23.120:13884",
                     username |-> "rockin12345678", password |-> "Varun123456789"]
        /\ \A k \in 1..Len(PROXY_BACKUP_LIST) :
            result.proxy_used = "backup_" \o ToString(k) =>
                /\ PROXY_BACKUP_LIST[k] = GoodBackup
                /\ proxy = [server |-> "http://10.0.0.1:8080", username |-> "user1",
                            password |-> "pass1"]

\* C35: in every result run() returns, success or failure, the counter
\* appointments_found of its metrics is the length of the aggregate at the
\* end of the run.
C35_AppointmentsFoundIsTheLength ==
    (pc = "done" /\ result # None) =>
        result.metrics.appointments_found = Len(appointments)

\* C36: a failure raised while the session of a proxy attempt is launched or
\* its page is opened ends the run at once: the step of the launch either
\* enters the target loop with the session open, or ends the run with a
\* failure result that is not of connection kind, on the same proxy attempt
\* and with no session left open, whether or not backup proxies remain.
C36_LaunchFailureIsFatal ==
    [][ pc = "launch" =>
            \/ /\ pc' = "retry"
               /\ open_sessions' = 1
               /\ launch_log'[Len(launch_log')].opened
               /\ result' = None
            \/ /\ pc' = "done"
               /\ result' # None
               /\ ~result'.success
               /\ result'.error_type \notin { "PageLoadError", "ProxyConnectionError" }
               /\ result'.error \in { "launch: browser failed to start",
                                      "new_page: browser closed" }
               /\ proxy_attempt' = proxy_attempt
               /\ Len(launch_log') = proxy_attempt + 1
               /\ open_sessions' = 0 ]_vars

\* C36 witness: the launch under the primary proxy failed with two backup
\* proxies left, and the run is over
C36_Witness ==
    /\ pc = "done"
    /\ PROXY_ENABLED
    /\ Len(PROXY_BACKUP_LIST) = 2
    /\ max_proxy_attempts = 3
    /\ proxy_attempt = 0
    /\ Len(launch_log) = 1
    /\ ~launch_log[1].opened
    /\ result # None
    /\ ~result.success
    /\ result.error = "launch: browser failed to start"

\* C37: every failure of _select_doctor is a DoctorSelectionError, also when
\* the page raised while the controls were counted, read or opened, and is
\* therefore not of the kind that makes run() try the next proxy.
C37_SelectionFailureKind ==
    (pc = "called" /\ ~last_call.ok) =>
        /\ last_call.exc.type = "DoctorSelectionError"
        /\ last_call.exc.type \notin { "PageLoadError", "ProxyConnectionError" }
        /\ ~is_connection_error(last_call.exc)
        /\ last_call.exc.msg \in
            { "Failed to select doctor: count: page closed",
              "No provider dropdowns found on page",
              "Could not select Dr. Michael Ayzin, DDS",
              "Could not select Dr. Ronald Ayzin, DDS" }

\* C37 witness: count() of the controls raised a transport error
C37_Witness ==
    /\ pc = "called"
    /\ unit_input.count.raises
    /\ Len(unit_input.cands) = 2
    /\ ~last_call.ok
    /\ last_call.exc.type = "DoctorSelectionError"
    /\ last_call.exc.msg = "Failed to select doctor: count: page closed"

\* C38: when every call to a collaborator returns or raises, run() comes to
\* an end with a result, whatever fails; it opens at most 1 + count(backups)
\* sessions, and each call of the retry executor, one per target and session
\* for navigation and one for selection, invokes its operation at most
\* MAX_RETRIES times.
C38_RunTerminates ==
    /\ <>(pc = "done" /\ result # None)
    /\ [](/\ Len(launch_log) <= 1 + Len(PROXY_BACKUP_LIST)
          /\ proxy_attempt <= Len(PROXY_BACKUP_LIST)
          /\ r_calls <= MAX_RETRIES
          /\ r_attempt <= MAX_RETRIES
          /\ doctor_index < Len(TARGET_DOCTORS)
          /\ idx <= button_count)

\* C38 witness: a run that ended after the last of its three sessions had
\* used up every attempt of the retry executor
C38_Witness ==
    /\ pc = "done"
    /\ result # None
    /\ Len(PROXY_BACKUP_LIST) = 2
    /\ Len(launch_log) = 3
    /\ MAX_RETRIES >= 1
    /\ metrics.retries = 3 * MAX_RETRIES

\* the stored result lr is the result of the run with outcome out (lines
\* 42-47 and 57-62), field by field
IsResultOf(lr, out) ==
    /\ lr # None
    /\ out # None
    /\ lr.success = (~out.raises /\ out.value.result.success)
    /\ lr.success => lr.appointments = out.value.appointments
    /\ ~lr.success =>
        lr.error = IF out.raises THEN out.value.error ELSE out.value.result.error

\* C39: every request answered with 202 has started a background run; for
\* every background run that was started, the running flag is eventually
\* false with last_result holding the result of that run; once no
\* background run is left, the flag is false and a start request that is
\* checked then is accepted.
C39_RunningFlagIsReset ==
    /\ \A t \in 1..MaxRequests :
        [](Len(threads) >= t =>
            <>(/\ Len(threads) >= t
               /\ ~scraper_status.running
               /\ IsResultOf(scraper_status.last_result, threads[t].out)))
    /\ [](live_threads = {} => ~scraper_status.running)
    /\ [](\A r \in 1..Len(requests) :
            requests[r].status = 202 => \E t \in 1..Len(threads) : threads[t].by = r)
    /\ [][ \A r \in 1..Len(requests) :
            (requests[r].pc = "check" /\ requests'[r].pc # "check"
             /\ live_threads = {}) => requests'[r].pc = "start" ]_vars

\* the errors a run that collected no appointment ends with
NothingCollected ==
    { "No appointments collected for any doctor", "mkdir: permission denied" }

\* C40: the appointments an answered results query returns belong to the
\* run whose result it returns: the count returned is the number of the
\* appointments returned, and when the result is that of a run that ended
\* without any appointment, the answer carries none.
C40_ResultsBelongToTheLastRun ==
    \A q \in 1..Len(queries) :
        (queries[q].pc = "done" /\ queries[q].response.code = 200) =>
            LET answer == queries[q].response.result
                returned == IF "appointments" \in DOMAIN answer
                            THEN answer.appointments ELSE << >>
                count == IF "appointments_count" \in DOMAIN answer
                         THEN answer.appointments_count ELSE 0
            IN  /\ count = Len(returned)
                /\ (~answer.success /\ answer.error \in NothingCollected) =>
                        returned = << >>

====
